---- MODULE Spec2Model ----
(***************************************************************************)
(* Tegra DVFS rail resolver (drivers/soc/tegra/tegra-dvfs.c).              *)
(*                                                                         *)
(* Every externally triggered operation runs under dvfs_lock, so one       *)
(* action is one lock section.  What happens inside a lock section (the    *)
(* recursion dvfs_rail_update -> dvfs_rail_set_voltage -> dvfs_rail_update *)
(* on the dependent rails) is computed by recursive operators over an      *)
(* execution context and is recorded, step by step, in the variable log.   *)
(***************************************************************************)
EXTENDS Integers, Sequences, FiniteSets, TLC

VARIABLES
    rails,      \* rail id -> struct dvfs_rail
    clks,       \* clock id -> struct dvfs
    rels,       \* the registered struct dvfs_relationship, in registration order
    pc,         \* where the power-management notifier stands
    op,         \* the last trigger: its name, arguments and return value
    log,        \* what the last trigger did, in order
    pre         \* rails and clks as they were before the last trigger

vars == <<rails, clks, rels, pc, op, log, pre>>

-----------------------------------------------------------------------------
(* Error codes.                                                            *)

EINVAL == 22
ENODEV == 19
EIO == 5
EPERM == 1
ENOENT == 2

-----------------------------------------------------------------------------
(* Bounds of the model.                                                    *)

\* rates handed to set_rate are 0..MaxRate; the tables end at rate 2
MaxRate == 3
\* the regulator write attempt of one trigger that fails first is one of
\* 1..MaxFailIdx (or none does)
MaxFailIdx == 2
\* thermal indices pushed are 0..MaxThermIdx; the tables hold 2 entries
MaxThermIdx == 2
\* nesting depth of dvfs_rail_update at which the model gives up
MaxDepth == 4
\* the length of a thermal limits array
MAX_THERMAL_LIMITS == 3

-----------------------------------------------------------------------------
(* dvfs_rail_list, and the clocks in the order tegra_setup_dvfs added them. *)

RailList == <<"cpu", "core", "gpu">>
RailIds == {"cpu", "core", "gpu"}
ClkList == <<"c1", "c2", "c3", "c4">>
ClkIds == {"c1", "c2", "c3", "c4"}

Abs(x) == IF x < 0 THEN 0 - x ELSE x
Max(a, b) == IF a > b THEN a ELSE b
Min(a, b) == IF a < b THEN a ELSE b
DivRoundDown(n, d) == n \div d

\* DIV_ROUND_UP(n, d)
DivRoundUp(n, d) == (n + d - 1) \div d
\* clamp_val(v, lo, hi) == min(max(v, lo), hi)
ClampVal(v, lo, hi) == Min(Max(v, lo), hi)

\* a struct dvfs_rail as tegra_dvfs_init_rails and
\* dvfs_rail_connect_to_regulator leave it
MkRail(minmv, maxmv, nom, step, stepup, floors, caps, mv) ==
    [min_millivolts |-> minmv, max_millivolts |-> maxmv,
     nominal_millivolts |-> nom,
     disable_millivolts |-> 0, suspend_millivolts |-> 0,
     override_millivolts |-> 0,
     step |-> step, step_up |-> stepup,
     therm_floors |-> floors, therm_floors_size |-> Len(floors),
     therm_floor_idx |-> 0,
     therm_caps |-> caps, therm_caps_size |-> Len(caps),
     therm_cap_idx |-> Len(caps),
     jmp_to_zero |-> FALSE, in_band_pm |-> FALSE, stats_off |-> FALSE,
     millivolts |-> mv, new_millivolts |-> mv,
     reg |-> TRUE, disabled |-> FALSE, suspended |-> FALSE,
     dfll_mode |-> FALSE, resolving_to |-> FALSE, is_ready |-> TRUE]

\* a struct dvfs as cleanup_dvfs_table and tegra_setup_dvfs leave it
MkClk(rail, freqs, mvs, maxmv) ==
    [dvfs_rail |-> rail, freqs |-> freqs, alt_freqs |-> <<>>,
     millivolts |-> mvs, num_freqs |-> Len(freqs),
     max_millivolts |-> maxmv, use_alt_freqs |-> FALSE,
     cur_rate |-> 0, cur_millivolts |-> 0]

Snapshot(rs, cs) == [rails |-> rs, clks |-> cs]

MkRel(from, to, kind, solved) ==
    [from |-> from, to |-> to, kind |-> kind, solved_at_nominal |-> solved]

-----------------------------------------------------------------------------
(* The execution context of one lock section.                              *)

Ctx(rs, cs, fails) ==
    [rails |-> rs, clks |-> cs, log |-> <<>>, fails |-> fails, nwr |-> 0,
     depth |-> 0, overflow |-> FALSE, ret |-> 0, abort |-> FALSE]

Guards(rs) == {r \in RailIds : rs[r].resolving_to}

\* one entry of log: what happened (k), to which rail (r), two values whose
\* meaning depends on k, and the rails' voltages and guards at that moment
Ev(s, k, r, a, b) ==
    [k |-> k, r |-> r, a |-> a, b |-> b,
     mv |-> [x \in RailIds |-> s.rails[x].millivolts],
     nmv |-> [x \in RailIds |-> s.rails[x].new_millivolts],
     guards |-> Guards(s.rails),
     susp |-> [x \in RailIds |-> s.rails[x].suspended],
     depth |-> s.depth]

Note(s, k, r, a, b) == [s EXCEPT !.log = Append(@, Ev(s, k, r, a, b))]

\* rail->relationships_to: the edges out of r (r is their "from")
RelsTo(r) == SelectSeq(rels, LAMBDA e : e.from = r)
\* rail->relationships_from: the edges into r (r is their "to")
RelsFrom(r) == SelectSeq(rels, LAMBDA e : e.to = r)
\* rail->dvfs: the clocks of the rail
DvfsOf(r, cs) == SelectSeq(ClkList, LAMBDA c : cs[c].dvfs_rail = r)

-----------------------------------------------------------------------------
(* rel->solve(rel->from, rel->to): the solvers are platform code.          *)

SolveAtLeast(from, to) ==
    Max(to.new_millivolts, Max(from.new_millivolts, from.millivolts))

SolveClampToSource(from, to) ==
    Max(from.new_millivolts, from.millivolts)

dvfs_solve_relationship(s, rel) ==
    IF rel.kind = "AtLeast"
    THEN SolveAtLeast(s.rails[rel.from], s.rails[rel.to])
    ELSE SolveClampToSource(s.rails[rel.from], s.rails[rel.to])

-----------------------------------------------------------------------------
(* dvfs_rail_set_voltage_reg: regulator_set_voltage fails at the write      *)
(* attempt s.fails.at of the lock section, and at every later one when     *)
(* the failure is sticky; at = 0 is a regulator that never fails.          *)

WriteFails(fails, n) ==
    fails.at # 0 /\ (n = fails.at \/ (fails.sticky /\ n > fails.at))

dvfs_rail_set_voltage_reg(s, r, millivolts) ==
    LET n == s.nwr + 1
        ok == ~WriteFails(s.fails, n)
        s1 == Note(s, "write", r, millivolts, ok)
    IN [s1 EXCEPT !.nwr = n, !.ret = IF ok THEN 0 ELSE 0 - EIO]

-----------------------------------------------------------------------------
(* dvfs_rail_apply_limits                                                  *)

EffectiveMin(rail) ==
    IF rail.therm_floors # <<>> /\ rail.therm_floor_idx < rail.therm_floors_size
    THEN rail.therm_floors[rail.therm_floor_idx + 1]
    ELSE rail.min_millivolts

EffectiveMax(rail) ==
    IF rail.therm_caps # <<>> /\ rail.therm_cap_idx > 0
    THEN rail.therm_caps[rail.therm_cap_idx]
    ELSE rail.max_millivolts

\* variant: rail->override_millivolts is not looked at
ApplyLimitsWithoutOverride(rail, millivolts) == millivolts

\* the value of clamp_val(millivolts, min_mv, max_mv) is computed and dropped
dvfs_rail_apply_limits(rail, millivolts) ==
    LET min_mv == EffectiveMin(rail)
        max_mv == EffectiveMax(rail)
        mv == IF rail.override_millivolts # 0
              THEN rail.override_millivolts ELSE millivolts
        dropped == ClampVal(mv, min_mv, max_mv)
    IN mv

-----------------------------------------------------------------------------
(* dvfs_rail_set_voltage and dvfs_rail_update                              *)

RECURSIVE dvfs_rail_update(_, _)
RECURSIVE NotifyDependents(_, _, _, _)
RECURSIVE StepLoop(_, _, _, _, _, _, _, _, _)
RECURSIVE UpdateLoop(_, _, _, _, _, _)
RECURSIVE MaxDemandOf(_, _)
RECURSIVE SolveAll(_, _, _)

\* if (ret) goto out;  with s the state after dvfs_rail_update(rel->to)
NotifiedOne(s, r, es) ==
    IF s.ret # 0 THEN [s EXCEPT !.abort = TRUE]
    ELSE NotifyDependents(s, r, Tail(es), s.ret)

\* variant: the rails that depend on r are not updated
NotifyDependentsNone(s, r, es, ret) == [s EXCEPT !.ret = ret, !.abort = FALSE]

\* list_for_each_entry(rel, &rail->relationships_to, to_node)
\*     { ret = dvfs_rail_update(rel->to); if (ret) goto out; }
NotifyDependents(s, r, es, ret) ==
    IF es = <<>> THEN [s EXCEPT !.ret = ret, !.abort = FALSE]
    ELSE NotifiedOne(dvfs_rail_update(Note(s, "notify", Head(es).to, r, 0),
                                      Head(es).to),
                     r, es)

\* the end of one step: s is the state after the second notification
StepNext(s, r, millivolts, step, offset, jmp_to_zero, i, steps) ==
    IF s.abort THEN s
    ELSE StepLoop(s, r, millivolts, step, offset, jmp_to_zero, i + 1, steps, s.ret)

\* rail->millivolts = rail->new_millivolts;
StepCommit(s, r) ==
    Note([s EXCEPT !.rails[r].millivolts = s.rails[r].new_millivolts],
         "set", r, s.rails[r].new_millivolts, FALSE)

\* variant: the voltage is taken as reached although the write failed
StepWrittenCommitsAnyway(s, r, millivolts, step, offset, jmp_to_zero, i, steps) ==
    IF s.ret # 0 THEN [StepCommit(s, r) EXCEPT !.abort = TRUE]
    ELSE StepNext(NotifyDependents(StepCommit(s, r), r, RelsTo(r), 0),
                  r, millivolts, step, offset, jmp_to_zero, i, steps)

\* if (ret) goto out;  with s the state after dvfs_rail_set_voltage_reg
StepWritten(s, r, millivolts, step, offset, jmp_to_zero, i, steps) ==
    IF s.ret # 0 THEN [s EXCEPT !.abort = TRUE]
    ELSE StepNext(NotifyDependents(StepCommit(s, r), r, RelsTo(r), 0),
                  r, millivolts, step, offset, jmp_to_zero, i, steps)

\* s is the state after the first notification
StepWrite(s, r, millivolts, step, offset, jmp_to_zero, i, steps) ==
    IF s.abort THEN s
    ELSE StepWritten(dvfs_rail_set_voltage_reg(s, r, s.rails[r].new_millivolts),
                     r, millivolts, step, offset, jmp_to_zero, i, steps)

\* the choice of rail->new_millivolts at the head of a step
StepTarget(s, r, millivolts, step, offset, jmp_to_zero) ==
    [s EXCEPT !.rails[r].new_millivolts =
        IF ~jmp_to_zero /\ Abs(millivolts - s.rails[r].millivolts) > step
        THEN s.rails[r].millivolts + offset ELSE millivolts]

\* variant: the step is written without telling the dependent rails first
StepLoopNoAnnounce(s, r, millivolts, step, offset, jmp_to_zero, i, steps, ret) ==
    IF i >= steps THEN [s EXCEPT !.ret = ret, !.abort = FALSE]
    ELSE StepWrite(StepTarget(s, r, millivolts, step, offset, jmp_to_zero),
                   r, millivolts, step, offset, jmp_to_zero, i, steps)

\* the for (i = 0; i < steps; i++) loop of dvfs_rail_set_voltage
StepLoop(s, r, millivolts, step, offset, jmp_to_zero, i, steps, ret) ==
    IF i >= steps THEN [s EXCEPT !.ret = ret, !.abort = FALSE]
    ELSE StepWrite(NotifyDependents(StepTarget(s, r, millivolts, step, offset, jmp_to_zero),
                                    r, RelsTo(r), ret),
                   r, millivolts, step, offset, jmp_to_zero, i, steps)

\* if (unlikely(rail->millivolts != millivolts)) ret = -EINVAL;
\* (the gotos of the loop jump over it)
RampIncomplete(s, r, millivolts) ==
    IF ~s.abort /\ s.rails[r].millivolts # millivolts
    THEN [s EXCEPT !.ret = 0 - EINVAL] ELSE s

\* variant: the guard is left set when the ramp is abandoned with an error
RampExitKeepsGuardOnError(s, r) ==
    [s EXCEPT !.rails[r].resolving_to = s.abort, !.abort = FALSE]

\* out: rail->resolving_to = false; return ret;
RampExit(s, r) ==
    [s EXCEPT !.rails[r].resolving_to = FALSE, !.abort = FALSE]

RampEnd(s, r, millivolts) == Note(s, "ramp_end", r, millivolts, s.ret)

\* variant: continuous-control mode is ramped like any other
DfllBypassNever(rail) == FALSE

\* if (rail->dfll_mode) { set millivolts and new_millivolts; return 0; }
DfllBypass(rail) == rail.dfll_mode

\* variant: a rail without a regulator takes any target
NoRegulatorAlwaysOk(rail, millivolts) == 0

\* if (!rail->reg) return millivolts == rail->millivolts ? 0 : -EINVAL;
NoRegulator(rail, millivolts) ==
    IF millivolts = rail.millivolts THEN 0 ELSE 0 - EINVAL

\* variant: a disabled rail is ramped like an enabled one
DisabledIgnored(rail) == FALSE

\* if (rail->disabled) return 0;
DisabledNoop(rail) == rail.disabled

dvfs_rail_set_voltage(s, r, millivolts) ==
    LET rail == s.rails[r]
        up == millivolts > rail.millivolts
        step == IF up THEN rail.step_up ELSE rail.step
        offset == IF up THEN step ELSE 0 - step
        jmp_to_zero == rail.jmp_to_zero /\ (millivolts = 0 \/ rail.millivolts = 0)
        forced == jmp_to_zero \/ (rail.in_band_pm /\ rail.stats_off)
        steps == IF forced THEN 1
                 ELSE DivRoundUp(Abs(millivolts - rail.millivolts), step)
    IN
    IF ~rail.reg
    THEN [s EXCEPT !.ret = NoRegulator(rail, millivolts)]
    ELSE IF DfllBypass(rail)
    THEN Note([s EXCEPT !.rails[r].millivolts = millivolts,
                        !.rails[r].new_millivolts = millivolts,
                        !.ret = 0],
              "set", r, millivolts, TRUE)
    ELSE IF DisabledNoop(rail)
    THEN [s EXCEPT !.ret = 0]
    ELSE RampEnd(
           RampExit(
             RampIncomplete(
               StepLoop(Note([s EXCEPT !.rails[r].resolving_to = TRUE],
                             "ramp", r, millivolts,
                             [steps |-> steps, forced |-> forced]),
                        r, millivolts, step, offset, jmp_to_zero, 0, steps, 0),
               r, millivolts),
             r),
           r, millivolts)

\* list_for_each_entry(d, &rail->dvfs, reg_node)
\*     millivolts = max(d->cur_millivolts, millivolts);
MaxDemandOf(cs, ds) ==
    IF ds = <<>> THEN 0
    ELSE Max(cs[Head(ds)].cur_millivolts, MaxDemandOf(cs, Tail(ds)))

MaxDemand(s, r) == MaxDemandOf(s.clks, DvfsOf(r, s.clks))

\* variant: only the first incoming edge is solved
SolveAllFirstOnly(s, r, es) ==
    IF es = <<>> THEN s
    ELSE [s EXCEPT !.rails[r].new_millivolts = dvfs_solve_relationship(s, Head(es))]

\* list_for_each_entry(rel, &rail->relationships_from, from_node)
\*     rail->new_millivolts = dvfs_solve_relationship(rel);
SolveAll(s, r, es) ==
    IF es = <<>> THEN s
    ELSE SolveAll([s EXCEPT !.rails[r].new_millivolts =
                                dvfs_solve_relationship(s, Head(es))],
                  r, Tail(es))

\* steps--: s is the state after dvfs_rail_set_voltage
UpdateNext(s, r, millivolts, steps, n) ==
    UpdateLoop(s, r, millivolts, steps - 1, s.ret, n + 1)

\* variant: the first iteration calls the ramp without the comparison
UpdateRampFirstAlways(s, r, millivolts, steps, ret, n) ==
    IF n > 0 /\ s.rails[r].new_millivolts = s.rails[r].millivolts
    THEN [s EXCEPT !.ret = ret]
    ELSE UpdateNext(dvfs_rail_set_voltage(s, r, s.rails[r].new_millivolts),
                    r, millivolts, steps, n)

\* if (rail->new_millivolts == rail->millivolts) break;
\* ret = dvfs_rail_set_voltage(rail, rail->new_millivolts);
UpdateRamp(s, r, millivolts, steps, ret, n) ==
    IF s.rails[r].new_millivolts = s.rails[r].millivolts
    THEN [s EXCEPT !.ret = ret]
    ELSE UpdateNext(dvfs_rail_set_voltage(s, r, s.rails[r].new_millivolts),
                    r, millivolts, steps, n)

UpdateIter(s, r, n) == Note(s, "iter", r, s.rails[r].new_millivolts, n)

\* variant: the incoming edges are not solved, the demand is ramped to as it is
UpdateLoopIgnoresEdges(s, r, millivolts, steps, ret, n) ==
    IF steps < 0 THEN [s EXCEPT !.ret = ret]
    ELSE UpdateRamp(UpdateIter([s EXCEPT !.rails[r].new_millivolts = millivolts],
                               r, n),
                    r, millivolts, steps, ret, n)

\* the for (; steps >= 0; steps--) loop of dvfs_rail_update
UpdateLoop(s, r, millivolts, steps, ret, n) ==
    IF steps < 0 THEN [s EXCEPT !.ret = ret]
    ELSE UpdateRamp(UpdateIter(SolveAll([s EXCEPT !.rails[r].new_millivolts = millivolts],
                                        r, RelsFrom(r)),
                               r, n),
                    r, millivolts, steps, ret, n)

RailResolved(s, r, mv) == Note(s, "resolved", r, mv, s.ret)

\* steps = DIV_ROUND_UP(abs(millivolts - rail->millivolts), rail->step);
\* and the loop
RailResolve(s, r, mv) ==
    LET steps == DivRoundUp(Abs(mv - s.rails[r].millivolts), s.rails[r].step)
    IN RailResolved(UpdateLoop(Note(s, "resolve", r, mv, steps), r, mv, steps, 0, 0),
                    r, mv)

\* variant: a rail without clock demand is always resolved towards 0
RailUpdateBodyAlwaysResolves(s, r) ==
    LET rail == s.rails[r]
        demand == MaxDemand(s, r)
    IN IF demand # 0 THEN RailResolve(s, r, dvfs_rail_apply_limits(rail, demand))
       ELSE RailResolve(s, r, 0)

\* the part of dvfs_rail_update after the four early returns
RailUpdateBody(s, r) ==
    LET rail == s.rails[r]
        demand == MaxDemand(s, r)
    IN IF demand # 0 THEN RailResolve(s, r, dvfs_rail_apply_limits(rail, demand))
       ELSE IF rail.in_band_pm THEN Note([s EXCEPT !.ret = 0], "hold", r, 0, "in_band_pm")
       ELSE IF ~rail.jmp_to_zero THEN Note([s EXCEPT !.ret = 0], "hold", r, 0, "warn")
       ELSE RailResolve(s, r, 0)

\* variant: the check of rail->resolving_to is missing
RailUpdateSkipsNoGuard(rail) ==
    rail.disabled \/ rail.suspended \/ ~rail.reg

\* variant: a suspended rail is resolved like a running one
RailUpdateSkipsRunsSuspended(rail) ==
    rail.disabled \/ ~rail.reg \/ rail.resolving_to

\* the four early returns of dvfs_rail_update
RailUpdateSkips(rail) ==
    rail.disabled \/ rail.suspended \/ ~rail.reg \/ rail.resolving_to

\* the nesting is counted in s.depth; past MaxDepth the call is cut short
\* and flagged in s.overflow
RailUpdateLeave(s, depth) == [s EXCEPT !.depth = depth]

dvfs_rail_update(s, r) ==
    IF RailUpdateSkips(s.rails[r])
    THEN Note([s EXCEPT !.ret = 0], "skip", r, 0, 0)
    ELSE IF s.depth >= MaxDepth
    THEN [s EXCEPT !.ret = 0, !.overflow = TRUE]
    ELSE RailUpdateLeave(RailUpdateBody([s EXCEPT !.depth = @ + 1], r), s.depth)

-----------------------------------------------------------------------------
(* __tegra_dvfs_set_rate                                                   *)

dvfs_get_freqs(d) == IF d.use_alt_freqs THEN d.alt_freqs ELSE d.freqs

RECURSIVE FreqIndex(_, _, _, _)
\* while (i < d->num_freqs && rate > freqs[i]) i++;   (0-based i)
FreqIndex(freqs, num_freqs, rate, i) ==
    IF i < num_freqs /\ rate > freqs[i + 1]
    THEN FreqIndex(freqs, num_freqs, rate, i + 1) ELSE i

\* the demand is recorded before the voltage ceiling is looked at
SetRateRecordsFirst(s, c, rate) ==
    LET d == s.clks[c]
        freqs == dvfs_get_freqs(d)
        i == FreqIndex(freqs, d.num_freqs, rate, 0)
    IN IF freqs = <<>> \/ d.millivolts = <<>> THEN [s EXCEPT !.ret = 0 - ENODEV]
       ELSE IF rate > freqs[d.num_freqs] THEN [s EXCEPT !.ret = 0 - EINVAL]
       ELSE IF rate # 0 /\ d.max_millivolts # 0
               /\ d.millivolts[i + 1] > d.max_millivolts
       THEN [s EXCEPT !.clks[c].cur_millivolts = d.millivolts[i + 1],
                      !.clks[c].cur_rate = rate,
                      !.ret = 0 - EINVAL]
       ELSE dvfs_rail_update(
                [s EXCEPT !.clks[c].cur_millivolts =
                              IF rate = 0 THEN 0 ELSE d.millivolts[i + 1],
                          !.clks[c].cur_rate = rate],
                d.dvfs_rail)

tegra_dvfs_set_rate_locked(s, c, rate) ==
    LET d == s.clks[c]
        freqs == dvfs_get_freqs(d)
        i == FreqIndex(freqs, d.num_freqs, rate, 0)
    IN IF freqs = <<>> \/ d.millivolts = <<>> THEN [s EXCEPT !.ret = 0 - ENODEV]
       ELSE IF rate > freqs[d.num_freqs] THEN [s EXCEPT !.ret = 0 - EINVAL]
       ELSE IF rate # 0 /\ d.max_millivolts # 0
               /\ d.millivolts[i + 1] > d.max_millivolts
       THEN [s EXCEPT !.ret = 0 - EINVAL]
       ELSE LET mv == IF rate = 0 THEN 0 ELSE d.millivolts[i + 1]
                s1 == [s EXCEPT !.clks[c].cur_millivolts = mv,
                                !.clks[c].cur_rate = rate]
            IN dvfs_rail_update(s1, d.dvfs_rail)

-----------------------------------------------------------------------------
(* tegra_dvfs_predict_millivolts: the value returned is a voltage or a     *)
(* negative errno; nothing is written.                                     *)

RECURSIVE PredictIndex(_, _, _, _)
\* the scan stops at the first entry strictly above the rate
PredictIndexStrict(freqs, num_freqs, rate, i) ==
    IF i < num_freqs /\ ~(rate < freqs[i + 1])
    THEN PredictIndex(freqs, num_freqs, rate, i + 1) ELSE i

\* for (i = 0; i < d->num_freqs; i++) if (rate <= freqs[i]) break;
PredictIndex(freqs, num_freqs, rate, i) ==
    IF i < num_freqs /\ ~(rate <= freqs[i + 1])
    THEN PredictIndex(freqs, num_freqs, rate, i + 1) ELSE i

predict_millivolts(d, millivolts, rate) ==
    LET i == PredictIndex(dvfs_get_freqs(d), d.num_freqs, rate, 0)
    IN IF millivolts = <<>> THEN 0 - ENODEV
       ELSE IF i = d.num_freqs THEN 0 - EINVAL
       ELSE millivolts[i + 1]

\* tegra_clk_to_dvfs finds a clock only on the list of the rail it was
\* registered with
tegra_clk_to_dvfs(s, c) == c \in DOMAIN s.clks

tegra_dvfs_predict_millivolts(s, c, rate) ==
    IF ~tegra_clk_to_dvfs(s, c) THEN [s EXCEPT !.ret = 0 - EINVAL]
    ELSE IF rate = 0 THEN [s EXCEPT !.ret = 0]
    ELSE [s EXCEPT !.ret = predict_millivolts(s.clks[c], s.clks[c].millivolts, rate)]

-----------------------------------------------------------------------------
(* Alternate frequency tables.                                             *)

RECURSIVE CleanupFreqs(_, _, _, _)
\* cleanup_dvfs_table: the loop stops at the first zero voltage; a zero
\* frequency at 0-based index i > 1 takes the value of the entry before it
CleanupFreqs(freqs, millivolts, mult, i) ==
    IF i >= Len(freqs) \/ millivolts[i + 1] = 0 THEN freqs
    ELSE LET f == IF mult # 0 THEN freqs[i + 1] * mult ELSE freqs[i + 1]
         IN CleanupFreqs([freqs EXCEPT ![i + 1] = IF f = 0 /\ i > 1 THEN freqs[i] ELSE f],
                         millivolts, mult, i + 1)

\* tegra_dvfs_add_alt_freqs: err is set for an unknown clock, and 0 is
\* returned in every case
tegra_dvfs_add_alt_freqs(s, c, alt_d) ==
    IF ~tegra_clk_to_dvfs(s, c) THEN [s EXCEPT !.ret = 0]
    ELSE [s EXCEPT !.clks[c].alt_freqs =
                       CleanupFreqs(alt_d.freqs, alt_d.millivolts, alt_d.freqs_mult, 0),
                   !.ret = 0]

\* the body of "if (!d && d->alt_freqs)", which is entered with d == NULL
\* only: every access to d in it is a fault
UseAltBody(s, c, use_alt_freq) == [s EXCEPT !.abort = TRUE]

\* tegra_dvfs_use_alt_freqs_on_clk: for a clock that has a table !d is
\* false and the body is skipped with err still -ENOENT; for a clock without
\* one d->alt_freqs reads through a null pointer, which either faults
\* (fault) or is taken by the compiler as never reached
tegra_dvfs_use_alt_freqs_on_clk(s, c, use_alt_freq, fault) ==
    IF tegra_clk_to_dvfs(s, c) THEN [s EXCEPT !.ret = 0 - ENOENT]
    ELSE IF fault THEN UseAltBody(s, c, use_alt_freq)
    ELSE [s EXCEPT !.ret = 0 - ENOENT]

-----------------------------------------------------------------------------
(* get_thermal_limits_size and tegra_dvfs_init_therm_limits: here a        *)
(* thermal table is the array of MAX_THERMAL_LIMITS entries of the rail's  *)
(* descriptor, temperatures included, closed by an entry with mv = 0 when  *)
(* it is not full; <<>> is the NULL table.                                 *)

ThermLimit(temperature, mv) == [temperature |-> temperature, mv |-> mv]

RECURSIVE ThermScan(_, _)
\* the for loop of get_thermal_limits_size: the value of i when it is left,
\* or -1 when it is left through "Unordered thermal limits"
ThermScan(limits, i) ==
    IF i >= MAX_THERMAL_LIMITS - 1 THEN i
    ELSE IF limits[i + 2].mv = 0 THEN i
    ELSE IF \/ limits[i + 1].temperature >= limits[i + 2].temperature
            \/ limits[i + 1].mv < limits[i + 2].mv
    THEN 0 - 1
    ELSE ThermScan(limits, i + 1)

ThermScanned(rail, limits, i) ==
    IF i < 0 THEN 0 - EINVAL
    ELSE IF limits[i + 1].mv < rail.min_millivolts THEN 0 - EINVAL
    ELSE i + 1

get_thermal_limits_size(rail, type) ==
    IF type \notin {"FLOOR", "CAP"} THEN 0 - EINVAL
    ELSE LET limits == IF type = "FLOOR" THEN rail.therm_floors ELSE rail.therm_caps
         IN IF limits[1].mv = 0 THEN 0 - EINVAL
            ELSE ThermScanned(rail, limits, ThermScan(limits, 0))

\* the first half of tegra_dvfs_init_therm_limits
InitThermFloors(rail, size) ==
    IF size <= 0 \/ rail.therm_floors[1].mv > rail.nominal_millivolts
    THEN [rail EXCEPT !.therm_floors = <<>>, !.therm_floors_size = 0]
    ELSE [rail EXCEPT !.therm_floors_size = size, !.therm_floor_idx = 0]

\* the second half of tegra_dvfs_init_therm_limits
InitThermCaps(rail, size) ==
    IF size <= 0
    THEN [rail EXCEPT !.therm_caps = <<>>, !.therm_caps_size = 0]
    ELSE [rail EXCEPT !.therm_caps_size = size, !.therm_cap_idx = size]

tegra_dvfs_init_therm_limits(rail) ==
    InitThermCaps(InitThermFloors(rail, get_thermal_limits_size(rail, "FLOOR")),
                  get_thermal_limits_size(rail, "CAP"))

-----------------------------------------------------------------------------
(* tegra_dvfs_core_update_thermal_index: tegra_core_rail is the "core"     *)
(* rail; the value of dvfs_rail_update is not looked at.                   *)

\* variant: the index is stored and the rail is left as it is
ThermalIndexStoredOnly(s, type, new_idx) ==
    IF ~s.rails["core"].is_ready THEN [s EXCEPT !.ret = 0 - EINVAL]
    ELSE IF type = "FLOOR"
    THEN [s EXCEPT !.rails["core"].therm_floor_idx = new_idx, !.ret = 0]
    ELSE IF type = "CAP"
    THEN [s EXCEPT !.rails["core"].therm_cap_idx = new_idx, !.ret = 0]
    ELSE [s EXCEPT !.ret = 0 - EINVAL]

tegra_dvfs_core_update_thermal_index(s, type, new_idx) ==
    LET rail == s.rails["core"] IN
    IF ~rail.is_ready THEN [s EXCEPT !.ret = 0 - EINVAL]
    ELSE IF type = "FLOOR"
    THEN IF rail.therm_floor_idx # new_idx
         THEN [dvfs_rail_update([s EXCEPT !.rails["core"].therm_floor_idx = new_idx],
                                "core") EXCEPT !.ret = 0]
         ELSE [s EXCEPT !.ret = 0]
    ELSE IF type = "CAP"
    THEN IF rail.therm_cap_idx # new_idx
         THEN [dvfs_rail_update([s EXCEPT !.rails["core"].therm_cap_idx = new_idx],
                                "core") EXCEPT !.ret = 0]
         ELSE [s EXCEPT !.ret = 0]
    ELSE [s EXCEPT !.ret = 0 - EINVAL]

-----------------------------------------------------------------------------
(* Suspend and resume.                                                     *)

tegra_dvfs_rail_get_disable_level(rail) ==
    IF rail.disable_millivolts # 0
    THEN rail.disable_millivolts ELSE rail.nominal_millivolts

tegra_dvfs_rail_get_suspend_level(rail) ==
    IF rail.suspend_millivolts # 0
    THEN rail.suspend_millivolts ELSE rail.nominal_millivolts

\* variant: the loop is satisfied by the first rail that is suspended or
\* disabled
AnyRailSuspended(s) ==
    \E r \in RailIds : s.rails[r].suspended \/ s.rails[r].disabled

tegra_dvfs_all_rails_suspended(s) ==
    \A r \in RailIds : s.rails[r].suspended \/ s.rails[r].disabled

\* variant: the sources of the incoming edges are not looked at
FromRailsNotChecked(s, to) == TRUE

tegra_dvfs_from_rails_suspended_or_solved(s, to) ==
    \A i \in 1 .. Len(RelsFrom(to)) :
        LET rel == RelsFrom(to)[i]
        IN \/ s.rails[rel.from].suspended
           \/ s.rails[rel.from].disabled
           \/ rel.solved_at_nominal

\* if (ret) return ret;  rail->suspended = true;  return 0;
SuspendMark(s, r) ==
    IF s.ret # 0 THEN s
    ELSE Note([s EXCEPT !.rails[r].suspended = TRUE, !.ret = 0],
              "mark", r, s.rails[r].millivolts, 0)

\* a variant that ramps to the suspend level whatever the present voltage
SuspendRailAlways(s, r, mv) ==
    SuspendMark(dvfs_rail_set_voltage(s, r, mv), r)

\* if (mv >= rail->millivolts) ret = dvfs_rail_set_voltage(rail, mv);
SuspendRail(s, r, mv) ==
    SuspendMark(IF mv >= s.rails[r].millivolts
                THEN dvfs_rail_set_voltage(s, r, mv)
                ELSE [s EXCEPT !.ret = 0],
                r)

RECURSIVE SuspendScan(_, _)
\* the list_for_each_entry(rail, &dvfs_rail_list, node) of tegra_dvfs_suspend_one
SuspendScan(s, rs) ==
    IF rs = <<>> THEN Note([s EXCEPT !.ret = 0 - EINVAL], "deadlock", "", 0, 0)
    ELSE
      LET r == Head(rs)
          rail == s.rails[r]
      IN IF \/ rail.suspended
            \/ rail.disabled
            \/ ~tegra_dvfs_from_rails_suspended_or_solved(s, r)
         THEN SuspendScan(s, Tail(rs))
         ELSE SuspendRail(s, r,
                          dvfs_rail_apply_limits(
                              rail, tegra_dvfs_rail_get_suspend_level(rail)))

tegra_dvfs_suspend_one(s) == SuspendScan(s, RailList)

RECURSIVE SuspendLoop(_, _)
\* if (ret) break;
SuspendNext(s) == IF s.ret # 0 THEN s ELSE SuspendLoop(s, s.ret)

\* while (!tegra_dvfs_all_rails_suspended()) { ret = suspend_one(); if (ret) break; }
SuspendLoop(s, ret) ==
    IF tegra_dvfs_all_rails_suspended(s) THEN [s EXCEPT !.ret = ret]
    ELSE SuspendNext(tegra_dvfs_suspend_one(s))

\* tegra_dvfs_suspend up to its mutex_unlock
tegra_dvfs_suspend_locked(s) == SuspendLoop(s, 0)

RECURSIVE UpdateEach(_, _)
\* list_for_each_entry(rail, &dvfs_rail_list, node) dvfs_rail_update(rail);
\* variant: only the first rail of the list is updated
UpdateFirstOnly(s, rs) ==
    IF rs = <<>> THEN [s EXCEPT !.ret = 0]
    ELSE [dvfs_rail_update(s, Head(rs)) EXCEPT !.ret = 0]

UpdateEach(s, rs) ==
    IF rs = <<>> THEN [s EXCEPT !.ret = 0]
    ELSE UpdateEach(dvfs_rail_update(s, Head(rs)), Tail(rs))

\* variant: the suspended flags stay set over the resume
ClearSuspendedNone(s, rs) == s

RECURSIVE ClearSuspended(_, _)
\* list_for_each_entry(rail, &dvfs_rail_list, node) rail->suspended = false;
ClearSuspended(s, rs) ==
    IF rs = <<>> THEN s
    ELSE ClearSuspended([s EXCEPT !.rails[Head(rs)].suspended = FALSE], Tail(rs))

tegra_dvfs_resume(s) == UpdateEach(ClearSuspended(s, RailList), RailList)

\* variant: a failed suspend returns its error without the resume
SuspendNoRollback(s) == tegra_dvfs_suspend_locked(s)

\* if (ret) tegra_dvfs_resume();  return ret;
SuspendRollback(s) ==
    IF s.ret # 0
    THEN [tegra_dvfs_resume(Note(s, "rollback", "", s.ret, 0)) EXCEPT !.ret = s.ret]
    ELSE s

tegra_dvfs_suspend(s) == SuspendRollback(tegra_dvfs_suspend_locked(s))

-----------------------------------------------------------------------------
(* tegra_dvfs_rail_disable and tegra_dvfs_rail_enable                      *)

\* if (ret) return;  rail->disabled = true;
DisableMark(s, r) ==
    IF s.ret # 0 THEN s ELSE [s EXCEPT !.rails[r].disabled = TRUE]

\* int ret = -EPERM;  if (mv >= rail->millivolts) ret = dvfs_rail_set_voltage(rail, mv);
DisableRail(s, r, mv) ==
    DisableMark(IF mv >= s.rails[r].millivolts
                THEN dvfs_rail_set_voltage(s, r, mv)
                ELSE [s EXCEPT !.ret = 0 - EPERM],
                r)

tegra_dvfs_rail_disable_locked(s, r) ==
    IF s.rails[r].dfll_mode THEN [s EXCEPT !.rails[r].disabled = TRUE, !.ret = 0]
    ELSE DisableRail(s, r,
                     dvfs_rail_apply_limits(
                         s.rails[r], tegra_dvfs_rail_get_disable_level(s.rails[r])))

tegra_dvfs_rail_disable(s, r) ==
    IF s.rails[r].disabled THEN [s EXCEPT !.ret = 0]
    ELSE [tegra_dvfs_rail_disable_locked(s, r) EXCEPT !.ret = 0]

tegra_dvfs_rail_enable(s, r) ==
    IF s.rails[r].disabled
    THEN [dvfs_rail_update([s EXCEPT !.rails[r].disabled = FALSE], r) EXCEPT !.ret = 0]
    ELSE [s EXCEPT !.ret = 0]

-----------------------------------------------------------------------------
(* tegra_dvfs_regulator_init, one lock section at a time: the lock is      *)
(* dropped around regulator_get and around clk_notifier_register.          *)

\* tegra_dvfs_set_rate: nothing is done before core_dvfs_started is set or
\* for a clock without a table
tegra_dvfs_set_rate(s, started, c, rate) ==
    IF ~started THEN [s EXCEPT !.ret = 0]
    ELSE IF ~tegra_clk_to_dvfs(s, c) THEN [s EXCEPT !.ret = 0]
    ELSE tegra_dvfs_set_rate_locked(s, c, rate)

\* dvfs_rail_connect_to_regulator from the mutex_lock after regulator_get:
\* hw.get and hw.enable are 0 or a negative errno, hw.uv is what
\* regulator_get_voltage returns (microvolts, or a negative errno)
dvfs_rail_connect_to_regulator(s, r, hw) ==
    IF ~s.rails[r].reg /\ hw.get < 0 THEN [s EXCEPT !.ret = hw.get]
    ELSE IF ~s.rails[r].in_band_pm /\ hw.enable < 0
    THEN [s EXCEPT !.rails[r].reg = TRUE, !.ret = hw.enable]
    ELSE IF hw.uv < 0
    THEN [s EXCEPT !.rails[r].reg = TRUE, !.ret = hw.uv]
    ELSE [s EXCEPT !.rails[r].reg = TRUE,
                   !.rails[r].min_millivolts =
                       IF @ = 0 THEN hw.min_uv \div 1000 ELSE @,
                   !.rails[r].millivolts = hw.uv \div 1000,
                   !.rails[r].new_millivolts = hw.uv \div 1000,
                   !.ret = 0]

\* if (err) { if (!rail->disabled) __tegra_dvfs_rail_disable(rail); return err; }
ConnectFailed(s, r, err) ==
    IF s.rails[r].disabled THEN s
    ELSE [tegra_dvfs_rail_disable_locked(s, r) EXCEPT !.ret = err]

\* __tegra_dvfs_rail_enable
tegra_dvfs_rail_enable_locked(s, r) ==
    [dvfs_rail_update([s EXCEPT !.rails[r].disabled = FALSE], r) EXCEPT !.ret = 0]

\* tegra_config_dvfs for one clock, up to the mutex_unlock before
\* clk_notifier_register: chw.on is __clk_is_enabled || __clk_is_prepared,
\* chw.rate is clk_get_rate
ConfigClk(s, c, chw) ==
    LET d == s.clks[c]
        i == PredictIndex(d.freqs, d.num_freqs, chw.rate, 0)
    IN IF ~chw.on THEN s
       ELSE [s EXCEPT !.clks[c].cur_rate = chw.rate,
                      !.clks[c].cur_millivolts =
                          IF i # d.num_freqs THEN d.millivolts[i + 1]
                          ELSE d.max_millivolts]

\* where a lock section of the init stops, with the state it leaves
Stop(s, at, ri, ci) == [ctx |-> s, at |-> at, ri |-> ri, ci |-> ci]

RECURSIVE ConfigFrom(_, _, _, _)
\* the second loop of tegra_dvfs_regulator_init from clock ci of rail ri up
\* to the next mutex_unlock
ConfigFrom(s, ri, ci, chw) ==
    IF ri > Len(RailList) THEN Stop([s EXCEPT !.ret = 0], "started", 0, 0)
    ELSE IF ci > Len(DvfsOf(RailList[ri], s.clks))
    THEN ConfigFrom(tegra_dvfs_rail_enable_locked(s, RailList[ri]), ri + 1, 1, chw)
    ELSE Stop(ConfigClk(s, DvfsOf(RailList[ri], s.clks)[ci], chw), "config", ri, ci)

\* s is the state after dvfs_rail_connect_to_regulator for rail ri
Connected(s, ri, chw) ==
    IF s.ret # 0 THEN Stop(ConnectFailed(s, RailList[ri], s.ret), "failed", ri, 0)
    ELSE IF ri < Len(RailList) THEN Stop(s, "get", ri + 1, 0)
    ELSE ConfigFrom(s, 1, 1, chw)

\* the first loop of tegra_dvfs_regulator_init from the mutex_lock after
\* regulator_get for rail ri up to the next mutex_unlock
ConnectFrom(s, ri, hw, chw) ==
    Connected(dvfs_rail_connect_to_regulator(s, RailList[ri], hw), ri, chw)

RECURSIVE SetReady(_, _)
\* tegra_dvfs_probe: list_for_each_entry(rail, ...) rail->is_ready = true;
SetReady(rs, list) ==
    IF list = <<>> THEN rs
    ELSE SetReady([rs EXCEPT ![Head(list)].is_ready = TRUE], Tail(list))

-----------------------------------------------------------------------------
(* The state after tegra_dvfs_probe: both rails connected at their boot    *)
(* voltage, every clock idle, core_dvfs_started set.                       *)

Topologies ==
    { <<>>,
      <<MkRel("cpu", "core", "AtLeast", FALSE)>>,
      <<MkRel("core", "cpu", "AtLeast", FALSE)>>,
      <<MkRel("cpu", "core", "AtLeast", FALSE), MkRel("core", "cpu", "AtLeast", FALSE)>>,
      <<MkRel("cpu", "core", "ClampToSource", FALSE), MkRel("core", "cpu", "AtLeast", FALSE)>> }

\* what regulator_get_voltage reads at connect
BootLevels == {800, 1000}

InitRailsAt(boot) ==
    [r \in RailIds |->
        IF r = "core"
        THEN MkRail(800, 1100, 1000, 50, 50, <<950, 900>>, <<1000, 950>>, boot)
        ELSE MkRail(800, 1100, 1000, 50, 50, <<>>, <<>>, boot)]

InitClks ==
    [c \in ClkIds |->
        CASE c = "c1" -> MkClk("cpu", <<1, 2>>, <<750, 900>>, 0)
          [] c = "c2" -> MkClk("cpu", <<1, 2>>, <<850, 1150>>, 1000)
          [] c = "c3" -> MkClk("core", <<1, 2>>, <<850, 1000>>, 0)
          [] OTHER    -> MkClk("gpu", <<1, 2>>, <<800, 900>>, 0)]

NoOp == [name |-> "none", rail |-> "", clk |-> "", arg |-> 0, ret |-> 0,
         overflow |-> FALSE]

\* no trigger is between its call and its return
Idle == op.name = "none"

\* pc.at is "run", "suspended" after a suspend that succeeded, or "rollback"
\* between the unlock of a suspend that failed and the tegra_dvfs_resume it
\* calls; pc.before is the state the suspend started from, pc.ret its value,
\* pc.dirty whether another trigger has run since
PcRun == [at |-> "run", ret |-> 0, before |-> Snapshot(<<>>, <<>>), dirty |-> FALSE]
Touch(p) == IF p.at = "run" THEN p ELSE [p EXCEPT !.dirty = TRUE]

Init ==
    /\ \E boot \in BootLevels : rails = InitRailsAt(boot)
    /\ clks = InitClks
    /\ rels \in Topologies
    /\ pc = PcRun
    /\ op = NoOp
    /\ log = <<>>
    /\ pre = Snapshot(rails, clks)

NoFail == [at |-> 0, sticky |-> FALSE]
FailSets == {NoFail} \cup [at : 1 .. MaxFailIdx, sticky : BOOLEAN]

\* what a trigger leaves behind when it unlocks dvfs_lock
Commit(s, name, rail, clk, arg) ==
    /\ rails' = s.rails
    /\ clks' = s.clks
    /\ log' = s.log
    /\ op' = [name |-> name, rail |-> rail, clk |-> clk, arg |-> arg,
              ret |-> s.ret, overflow |-> s.overflow]
    /\ pre' = Snapshot(rails, clks)

\* tegra_dvfs_set_rate (core_dvfs_started is set by the probe)
SetRateWith(C, F) ==
    \E c \in C, rate \in 0 .. MaxRate, fails \in F :
        /\ Idle
        /\ Commit(tegra_dvfs_set_rate_locked(Ctx(rails, clks, fails), c, rate),
                  "set_rate", clks[c].dvfs_rail, c, rate)
        /\ pc' = Touch(pc)
        /\ UNCHANGED rels

ThermalTypes == {"FLOOR", "CAP", "OTHER"}

UpdateThermalIndexWith(F) ==
    \E type \in ThermalTypes, idx \in 0 .. MaxThermIdx, fails \in F :
        /\ Idle
        /\ Commit(tegra_dvfs_core_update_thermal_index(Ctx(rails, clks, fails), type, idx),
                  type, "core", "", idx)
        /\ pc' = Touch(pc)
        /\ UNCHANGED rels

\* the trigger's caller has its return value: the record of the call goes
Return ==
    /\ ~Idle
    /\ op' = NoOp
    /\ log' = <<>>
    /\ pre' = Snapshot(rails, clks)
    /\ UNCHANGED <<rails, clks, rels, pc>>

\* a clock that was never registered with a rail
UnknownClk == "cx"

\* tegra_dvfs_predict_millivolts
PredictWith(C) ==
    \E c \in C, rate \in 0 .. MaxRate :
        /\ Idle
        /\ Commit(tegra_dvfs_predict_millivolts(Ctx(rails, clks, NoFail), c, rate),
                  "predict", "", c, rate)
        /\ pc' = Touch(pc)
        /\ UNCHANGED rels

SetRate == SetRateWith({"c1", "c2", "c3"}, {NoFail})
UpdateThermalIndex == UpdateThermalIndexWith({NoFail})
Predict == PredictWith({"c1", "c2", "c3", UnknownClk})

Next == SetRate \/ UpdateThermalIndex \/ Predict \/ Return

Spec == Init /\ [][Next]_vars

-----------------------------------------------------------------------------
(* Thermal pushes against tables of one or two entries: the index pushed   *)
(* is whatever the thermal driver passes, 0..MaxThermIdx here.             *)

ThermSizes == {1, 2}

InitPush ==
    /\ \E boot \in BootLevels, n \in ThermSizes :
          rails = [InitRailsAt(boot) EXCEPT
                      !["core"] = MkRail(800, 1100, 1000, 50, 50,
                                         SubSeq(<<950, 900>>, 1, n),
                                         SubSeq(<<1000, 950>>, 1, n), boot)]
    /\ clks = InitClks
    /\ rels \in Topologies
    /\ pc = PcRun
    /\ op = NoOp
    /\ log = <<>>
    /\ pre = Snapshot(rails, clks)

NextPush == UpdateThermalIndex \/ SetRate \/ Return

SpecPush == InitPush /\ [][NextPush]_vars

-----------------------------------------------------------------------------
(* Clocks that switch between their frequency table and an alternate one.  *)

\* the alternate tables a platform registers: the same voltages at higher
\* rates
AltTables ==
    { [freqs |-> <<2, 3>>, millivolts |-> <<750, 900>>, freqs_mult |-> 0],
      [freqs |-> <<1, 3>>, millivolts |-> <<750, 900>>, freqs_mult |-> 1] }

AddAltFreqs ==
    \E c \in {"c1", UnknownClk}, alt_d \in AltTables :
        /\ Idle
        /\ Commit(tegra_dvfs_add_alt_freqs(Ctx(rails, clks, NoFail), c, alt_d),
                  "add_alt", "", c, 0)
        /\ UNCHANGED <<rels, pc>>

\* op.arg is 1 when the alternate table is asked for; a call that faulted
\* does not return
UseAltFreqs ==
    \E c \in {"c1", "c3", UnknownClk}, use_alt_freq \in BOOLEAN, fault \in BOOLEAN :
        /\ Idle
        /\ Commit(tegra_dvfs_use_alt_freqs_on_clk(Ctx(rails, clks, NoFail), c,
                                                  use_alt_freq, fault),
                  IF fault /\ c = UnknownClk THEN "use_alt_fault" ELSE "use_alt",
                  "", c, IF use_alt_freq THEN 1 ELSE 0)
        /\ UNCHANGED <<rels, pc>>

SetRateAlt == SetRateWith({"c1", "c3"}, {NoFail})

NextAlt == AddAltFreqs \/ UseAltFreqs \/ SetRateAlt \/ Return

SpecAlt == Init /\ [][NextAlt]_vars

-----------------------------------------------------------------------------
(* Rate requests against regulators whose writes can fail.                 *)

SetRateFail == SetRateWith({"c1", "c3"}, FailSets)

NextFail == SetRateFail \/ Return

SpecFail == Init /\ [][NextFail]_vars

-----------------------------------------------------------------------------
(* The probe: tegra_dvfs_regulator_init connects and configures the rails  *)
(* while rail enable/disable, thermal pushes and rate requests arrive.     *)

\* the disable levels of the platform tables, 0 for none
DisableLevels == {0, 900}

\* the rails as tegra_dvfs_init_rails leaves them: at nominal, no regulator
InitRailsUnbound(dis) ==
    [r \in RailIds |->
        [InitRailsAt(1000)[r] EXCEPT !.reg = FALSE, !.is_ready = FALSE,
                                     !.disable_millivolts = Min(dis, 1000)]]

RegOk(mv) == [get |-> 0, enable |-> 0, uv |-> mv * 1000, min_uv |-> 800000]
\* what regulator_get, regulator_enable and regulator_get_voltage answer
RegHw ==
    {RegOk(mv) : mv \in BootLevels} \cup
    { [RegOk(800) EXCEPT !.get = 0 - ENODEV],
      [RegOk(800) EXCEPT !.enable = 0 - EIO],
      [RegOk(800) EXCEPT !.uv = 0 - EIO] }

ClkOff == [on |-> FALSE, rate |-> 0]
\* the clocks as the boot loader left them
ClkHw == {ClkOff} \cup [on : {TRUE}, rate : {1, MaxRate}]

PcInit == [at |-> "get", ri |-> 1, ci |-> 0, started |-> FALSE,
           ret |-> 0, before |-> Snapshot(<<>>, <<>>), dirty |-> FALSE]

InitProbe ==
    /\ \E dis \in DisableLevels : rails = InitRailsUnbound(dis)
    /\ clks = InitClks
    /\ rels = <<MkRel("core", "cpu", "AtLeast", FALSE)>>
    /\ pc = PcInit
    /\ op = NoOp
    /\ log = <<>>
    /\ pre = Snapshot(rails, clks)

\* a lock section of tegra_dvfs_regulator_init ends
CommitInit(res, r) ==
    /\ Commit(res.ctx, IF res.at \in {"failed", "started"}
                       THEN "regulator_init" ELSE "init_step", r, "", 0)
    /\ pc' = [pc EXCEPT !.at = res.at, !.ri = res.ri, !.ci = res.ci,
                        !.started = (res.at = "started"),
                        !.ret = res.ctx.ret]

\* regulator_get has answered for rail pc.ri
Connect ==
    \E hw \in RegHw, chw \in IF pc.ri = Len(RailList) THEN ClkHw ELSE {ClkOff} :
        /\ Idle /\ pc.at = "get"
        /\ CommitInit(ConnectFrom(Ctx(rails, clks, NoFail), pc.ri, hw, chw),
                      RailList[pc.ri])
        /\ UNCHANGED rels

\* clk_notifier_register has returned for clock pc.ci of rail pc.ri
Config ==
    \E chw \in ClkHw :
        /\ Idle /\ pc.at = "config"
        /\ CommitInit(ConfigFrom(Ctx(rails, clks, NoFail), pc.ri, pc.ci + 1, chw),
                      RailList[pc.ri])
        /\ UNCHANGED rels

\* tegra_dvfs_probe after tegra_dvfs_regulator_init returned 0
ProbeReady ==
    /\ Idle /\ pc.at = "started"
    /\ rails' = SetReady(rails, RailList)
    /\ pc' = [pc EXCEPT !.at = "ready"]
    /\ op' = [NoOp EXCEPT !.name = "probe"]
    /\ pre' = Snapshot(rails, clks)
    /\ UNCHANGED <<clks, rels, log>>

RailDisableInit ==
    \E r \in {"core"} :
        /\ Idle
        /\ Commit(tegra_dvfs_rail_disable(Ctx(rails, clks, NoFail), r),
                  "rail_disable", r, "", 0)
        /\ UNCHANGED <<rels, pc>>

RailEnableInit ==
    \E r \in {"core"} :
        /\ Idle
        /\ Commit(tegra_dvfs_rail_enable(Ctx(rails, clks, NoFail), r),
                  "rail_enable", r, "", 0)
        /\ UNCHANGED <<rels, pc>>

SetRateInit ==
    \E c \in {"c3"}, rate \in 0 .. MaxRate :
        /\ Idle
        /\ Commit(tegra_dvfs_set_rate(Ctx(rails, clks, NoFail), pc.started, c, rate),
                  "set_rate", clks[c].dvfs_rail, c, rate)
        /\ UNCHANGED <<rels, pc>>

UpdateThermalIndexInit == UpdateThermalIndexWith({NoFail})

NextInit ==
    \/ Connect \/ Config \/ ProbeReady
    \/ RailDisableInit \/ RailEnableInit \/ SetRateInit \/ UpdateThermalIndexInit
    \/ Return

SpecInit == InitProbe /\ [][NextInit]_vars

-----------------------------------------------------------------------------
(* The power-management notifier, with rail enable/disable and set_rate.   *)

\* the system is suspended when tegra_dvfs_suspend returned 0
CommitSuspend(s) ==
    /\ Commit(s, "suspend", "", "", 0)
    /\ pc' = [at |-> IF s.ret # 0 THEN "run" ELSE "suspended",
              ret |-> s.ret,
              before |-> Snapshot(rails, clks),
              dirty |-> FALSE]

\* PM_SUSPEND_PREPARE, or a reboot: tegra_dvfs_suspend
SuspendWith(F) ==
    \E fails \in F :
        /\ Idle /\ pc.at = "run"
        /\ CommitSuspend(tegra_dvfs_suspend(Ctx(rails, clks, fails)))
        /\ UNCHANGED rels

\* PM_POST_SUSPEND: tegra_dvfs_resume
ResumeWith(F) ==
    \E fails \in F :
        /\ Idle /\ pc.at = "suspended"
        /\ Commit(tegra_dvfs_resume(Ctx(rails, clks, fails)), "resume", "", "", 0)
        /\ pc' = [pc EXCEPT !.at = "run"]
        /\ UNCHANGED rels

RailDisableWith(R, F) ==
    \E r \in R, fails \in F :
        /\ Idle /\ pc.at = "run"
        /\ Commit(tegra_dvfs_rail_disable(Ctx(rails, clks, fails), r),
                  "rail_disable", r, "", 0)
        /\ pc' = Touch(pc)
        /\ UNCHANGED rels

RailEnableWith(R, F) ==
    \E r \in R, fails \in F :
        /\ Idle /\ pc.at = "run"
        /\ Commit(tegra_dvfs_rail_enable(Ctx(rails, clks, fails), r),
                  "rail_enable", r, "", 0)
        /\ pc' = Touch(pc)
        /\ UNCHANGED rels

\* the return of a trigger; the suspend's record goes with the resume's
ReturnPm ==
    /\ ~Idle
    /\ op' = NoOp
    /\ log' = <<>>
    /\ pre' = Snapshot(rails, clks)
    /\ pc' = IF pc.at = "run" THEN PcRun ELSE pc
    /\ UNCHANGED <<rails, clks, rels>>

PmTopologies ==
    { <<>>,
      <<MkRel("core", "cpu", "AtLeast", FALSE)>>,
      <<MkRel("core", "cpu", "AtLeast", TRUE)>>,
      <<MkRel("cpu", "core", "AtLeast", FALSE), MkRel("core", "cpu", "AtLeast", FALSE)>> }

\* cpu has a suspend level of its own, core and gpu suspend at nominal
PmRails ==
    [r \in RailIds |->
        [MkRail(800, 1100, 1000, 100, 100, <<>>, <<>>, 800)
            EXCEPT !.suspend_millivolts = IF r = "cpu" THEN 900 ELSE 0]]

PmClks ==
    [c \in ClkIds |->
        CASE c = "c1" -> MkClk("cpu", <<1, 2>>, <<800, 900>>, 0)
          [] c = "c2" -> MkClk("cpu", <<1, 2>>, <<800, 900>>, 0)
          [] c = "c3" -> MkClk("core", <<1, 2>>, <<800, 900>>, 0)
          [] OTHER    -> MkClk("gpu", <<1, 2>>, <<800, 900>>, 0)]

InitPm ==
    /\ \E rate \in {0, 2} :
          /\ clks = [PmClks EXCEPT !["c4"].cur_rate = rate,
                                   !["c4"].cur_millivolts = IF rate = 0 THEN 0 ELSE 900]
          /\ rails = [PmRails EXCEPT
                          !["gpu"].millivolts = IF rate = 0 THEN 800 ELSE 900,
                          !["gpu"].new_millivolts = IF rate = 0 THEN 800 ELSE 900]
    /\ rels \in PmTopologies
    /\ pc = PcRun
    /\ op = NoOp
    /\ log = <<>>
    /\ pre = Snapshot(rails, clks)

SetRatePm == pc.at = "run" /\ SetRateWith({"c1", "c3"}, {NoFail})
Suspend == SuspendWith(FailSets)
Resume == ResumeWith(FailSets)
RailDisable == RailDisableWith({"core"}, {NoFail})
RailEnable == RailEnableWith({"core"}, {NoFail})

NextPm ==
    SetRatePm \/ Suspend \/ Resume \/ RailDisable \/ RailEnable \/ ReturnPm

SpecPm == InitPm /\ [][NextPm]_vars

-----------------------------------------------------------------------------
(* Rate changes that arrive while the rails are suspended: the clock       *)
(* framework keeps calling tegra_dvfs_set_rate between PM_SUSPEND_PREPARE  *)
(* and PM_POST_SUSPEND.                                                    *)

SetRateAwake == pc.at = "run" /\ SetRateWith({"c1", "c3"}, {NoFail})
SetRateSuspended == pc.at = "suspended" /\ SetRateWith({"c1", "c3"}, {NoFail})
SuspendAll == SuspendWith({NoFail})
ResumeAll == ResumeWith(FailSets)

NextSleep ==
    SetRateAwake \/ SuspendAll \/ SetRateSuspended \/ ResumeAll \/ ReturnPm

SpecSleep == InitPm /\ [][NextSleep]_vars

-----------------------------------------------------------------------------
(* tegra_dvfs_resume over every order of dvfs_rail_list.  The order of the *)
(* list is the order in which the platform registers its rails.  Init is a *)
(* system that a suspend has left: every rail is marked suspended and sits *)
(* at its suspend level (900 where one is configured, nominal otherwise),  *)
(* and the clocks hold the demands recorded last.                          *)

OrderLevels == {900, 1000}
OrderRates == {0, 1, 2}
OrderModes == {"plain", "jmp", "inband_off"}
OrderSteps == {50, 100}
OrderPerms == {p \in [1 .. Len(RailList) -> RailIds] :
                  \A i, j \in 1 .. Len(RailList) : p[i] = p[j] => i = j}

OrderTopologies ==
    { <<>>,
      <<MkRel("core", "cpu", "AtLeast", FALSE), MkRel("cpu", "gpu", "AtLeast", FALSE)>>,
      <<MkRel("core", "cpu", "AtLeast", FALSE), MkRel("core", "gpu", "ClampToSource", FALSE)>>,
      <<MkRel("cpu", "core", "AtLeast", FALSE), MkRel("gpu", "core", "ClampToSource", FALSE)>>,
      <<MkRel("cpu", "core", "AtLeast", TRUE), MkRel("core", "cpu", "AtLeast", FALSE)>> }

OrderClks ==
    [c \in ClkIds |->
        CASE c = "c1" -> MkClk("cpu", <<1, 2>>, <<800, 1000>>, 0)
          [] c = "c2" -> MkClk("cpu", <<1, 2>>, <<800, 1000>>, 0)
          [] c = "c3" -> MkClk("core", <<1, 2>>, <<800, 1000>>, 0)
          [] OTHER    -> MkClk("gpu", <<1, 2>>, <<800, 1000>>, 0)]

SuspendedRail(mv, step) ==
    [MkRail(800, 1100, 1000, step, 50, <<>>, <<>>, mv)
        EXCEPT !.suspend_millivolts = IF mv = 1000 THEN 0 ELSE mv,
               !.suspended = TRUE]

InitOrder ==
    /\ \E mvs \in [RailIds -> OrderLevels], mode \in OrderModes, step \in OrderSteps :
          rails = [r \in RailIds |->
                      IF r = "core"
                      THEN [SuspendedRail(mvs[r], step) EXCEPT
                                !.jmp_to_zero = (mode = "jmp"),
                                !.in_band_pm = (mode = "inband_off"),
                                !.stats_off = (mode = "inband_off")]
                      ELSE SuspendedRail(mvs[r], 50)]
    /\ \E rate \in [{"c1", "c3", "c4"} -> OrderRates] :
          /\ rate["c4"] # 1
          /\ clks = [c \in ClkIds |->
                     IF c = "c2" \/ rate[c] = 0 THEN OrderClks[c]
                     ELSE [OrderClks[c] EXCEPT
                               !.cur_rate = rate[c],
                               !.cur_millivolts = OrderClks[c].millivolts[rate[c]]]]
    /\ rels \in OrderTopologies
    /\ pc = [PcRun EXCEPT !.at = "suspended"]
    /\ op = NoOp
    /\ log = <<>>
    /\ pre = Snapshot(rails, clks)

\* tegra_dvfs_resume with dvfs_rail_list in the order p
ResumeInOrder ==
    \E p \in OrderPerms :
        /\ Idle /\ pc.at = "suspended"
        /\ Commit(UpdateEach(ClearSuspended(Ctx(rails, clks, NoFail), RailList), p),
                  "resume", "", "", 0)
        /\ pc' = [at |-> "run", ret |-> 0, before |-> pre, dirty |-> FALSE,
                  order |-> p]
        /\ UNCHANGED rels

NextOrder == ResumeInOrder

SpecOrder == InitOrder /\ [][NextOrder]_vars

-----------------------------------------------------------------------------
(* The triggers as threads around dvfs_lock: the clock framework's         *)
(* notifier, a driver that enables, disables and pushes thermal indexes,   *)
(* and the power-management notifier.  A thread is at "idle", "event" (in  *)
(* tegra_dvfs_clk_event, before tegra_dvfs_set_rate), "want" (in           *)
(* mutex_lock), "in" (holds the lock) or "done" (before mutex_unlock).     *)

Threads == {"clk", "drv", "pm"}

ThIdle == [at |-> "idle", name |-> "", rail |-> "", clk |-> "", arg |-> 0,
           ret |-> 0, dirty |-> FALSE,
           saw_partial |-> FALSE, read_unlocked |-> FALSE]

\* mutex_lock(&dvfs_lock) returns when nobody holds the lock
MutexFree(lock) == lock = ""

\* the lock section of a trigger
LockSection(s, th) ==
    CASE th.name = "set_rate"     -> tegra_dvfs_set_rate(s, TRUE, th.clk, th.arg)
      [] th.name = "rail_disable" -> tegra_dvfs_rail_disable(s, th.rail)
      [] th.name = "rail_enable"  -> tegra_dvfs_rail_enable(s, th.rail)
      [] th.name = "FLOOR"        -> tegra_dvfs_core_update_thermal_index(s, "FLOOR", th.arg)
      [] th.name = "suspend"      -> tegra_dvfs_suspend_locked(s)
      [] OTHER                    -> tegra_dvfs_resume(s)

\* a rail or clock field was changed or a regulator was written
Mutated(s) ==
    \/ s.rails # rails
    \/ s.clks # clks
    \/ \E i \in 1 .. Len(s.log) : s.log[i].k = "write"

\* a failed suspend has unlocked and its tegra_dvfs_resume has not yet
\* locked, with rails still marked suspended
PartialSuspend ==
    /\ pc.th["pm"].name = "rollback" /\ pc.th["pm"].at = "want"
    /\ \E r \in RailIds : rails[r].suspended

PcLock == [lock |-> "", sys |-> "run", th |-> [t \in Threads |-> ThIdle]]

InitLock ==
    /\ rails = PmRails
    /\ clks = PmClks
    /\ rels \in {<<MkRel("core", "cpu", "AtLeast", FALSE)>>,
                 <<MkRel("cpu", "core", "AtLeast", FALSE),
                   MkRel("core", "cpu", "AtLeast", FALSE)>>}
    /\ pc = PcLock
    /\ op = NoOp
    /\ log = <<>>
    /\ pre = Snapshot(rails, clks)

ClkEvents == {"PRE_RATE_CHANGE", "POST_RATE_CHANGE", "ABORT_RATE_CHANGE"}

\* the clock framework calls tegra_dvfs_clk_event
ClkEvent ==
    \E c \in {"c1"}, new_rate \in 0 .. MaxRate, event \in ClkEvents :
        /\ pc.th["clk"].at = "idle"
        /\ pc' = [pc EXCEPT !.th["clk"] =
                      [ThIdle EXCEPT !.at = "event", !.name = event,
                                     !.clk = c, !.arg = new_rate]]
        /\ UNCHANGED <<rails, clks, rels, op, log, pre>>

\* tegra_dvfs_clk_event up to its call of tegra_dvfs_set_rate:
\* tegra_clk_to_dvfs walks dvfs_rail_list and the rails' clock lists with
\* the lock not taken; old_rate is the rate the clock runs at
ClkLookup ==
    \E on \in BOOLEAN, old_rate \in {0, 1} :
        /\ pc.th["clk"].at = "event"
        /\ LET th == pc.th["clk"]
               calls ==
                   /\ tegra_clk_to_dvfs(Ctx(rails, clks, NoFail), th.clk)
                   /\ on
                   /\ \/ th.name = "PRE_RATE_CHANGE" /\ old_rate < th.arg
                      \/ th.name = "POST_RATE_CHANGE" /\ old_rate > th.arg
           IN pc' = [pc EXCEPT !.th["clk"] =
                        IF calls
                        THEN [th EXCEPT !.at = "want", !.name = "set_rate",
                                        !.rail = clks[th.clk].dvfs_rail,
                                        !.read_unlocked = (pc.lock # "clk")]
                        ELSE ThIdle]
        /\ UNCHANGED <<rails, clks, rels, op, log, pre>>

\* a driver calls tegra_dvfs_rail_disable, tegra_dvfs_rail_enable or
\* tegra_dvfs_core_update_thermal_index
DrvCall ==
    \E name \in {"rail_disable", "rail_enable", "FLOOR"}, idx \in {0, 1} :
        /\ pc.th["drv"].at = "idle"
        /\ name # "FLOOR" => idx = 0
        /\ pc' = [pc EXCEPT !.th["drv"] =
                      [ThIdle EXCEPT !.at = "want", !.name = name,
                                     !.rail = "core", !.arg = idx]]
        /\ UNCHANGED <<rails, clks, rels, op, log, pre>>

\* tegra_dvfs_pm_notifier_event: PM_SUSPEND_PREPARE, then PM_POST_SUSPEND
PmCall ==
    /\ pc.th["pm"].at = "idle"
    /\ pc' = [pc EXCEPT !.th["pm"] =
                  [ThIdle EXCEPT !.at = "want",
                                 !.name = IF pc.sys = "run" THEN "suspend"
                                          ELSE "resume"]]
    /\ UNCHANGED <<rails, clks, rels, op, log, pre>>

\* mutex_lock(&dvfs_lock) returns
Acquire ==
    \E t \in Threads :
        /\ pc.th[t].at = "want"
        /\ MutexFree(pc.lock)
        /\ pc' = [pc EXCEPT !.lock = t,
                            !.th[t].at = "in",
                            !.th[t].saw_partial = (t # "pm" /\ PartialSuspend)]
        /\ UNCHANGED <<rails, clks, rels, op, log, pre>>

\* the trigger of the thread has taken its first step and not yet its last:
\* it is between a mutex_lock and the mutex_unlock after it, or it is a
\* failed suspend between its mutex_unlock and the tegra_dvfs_resume it calls
MidChain(th) ==
    \/ th.at \in {"in", "done"}
    \/ th.name = "rollback" /\ th.at = "want"

\* every thread that is in the middle of its trigger while another one
\* changes the graph or writes a regulator is marked
Disturb(ths, t, mutated) ==
    [u \in Threads |->
        IF u # t /\ MidChain(ths[u])
        THEN [ths[u] EXCEPT !.dirty = @ \/ mutated]
        ELSE ths[u]]

BodyDone(s, t) ==
    /\ rails' = s.rails
    /\ clks' = s.clks
    /\ pc' = [pc EXCEPT !.th = [Disturb(pc.th, t, Mutated(s)) EXCEPT
                                   ![t].at = "done",
                                   ![t].ret = s.ret]]

\* what a trigger does between mutex_lock and mutex_unlock
Body ==
    \E t \in Threads :
        /\ pc.th[t].at = "in"
        /\ BodyDone(LockSection(Ctx(rails, clks, NoFail), pc.th[t]), t)
        /\ UNCHANGED <<rels, op, log, pre>>

\* mutex_unlock(&dvfs_lock); a suspend that failed goes on to call
\* tegra_dvfs_resume, which locks again
Release ==
    \E t \in Threads :
        /\ pc.th[t].at = "done"
        /\ pc' = [pc EXCEPT
                     !.lock = "",
                     !.sys = IF pc.th[t].name = "suspend" /\ pc.th[t].ret = 0
                             THEN "suspended"
                             ELSE IF pc.th[t].name \in {"resume", "rollback"}
                             THEN "run" ELSE @,
                     !.th[t] = IF pc.th[t].name = "suspend" /\ pc.th[t].ret # 0
                               THEN [ThIdle EXCEPT !.at = "want", !.name = "rollback",
                                                   !.ret = pc.th[t].ret]
                               ELSE ThIdle]
        /\ UNCHANGED <<rails, clks, rels, op, log, pre>>

NextLock ==
    ClkEvent \/ ClkLookup \/ DrvCall \/ PmCall \/ Acquire \/ Body \/ Release

SpecLock == InitLock /\ [][NextLock]_vars

-----------------------------------------------------------------------------
(* The clock framework changing a clock's rate: it calls                   *)
(* tegra_dvfs_clk_event with PRE_RATE_CHANGE, programs the hardware, and   *)
(* calls it with POST_RATE_CHANGE, or gives the change up after the PRE    *)
(* call and calls it with ABORT_RATE_CHANGE.  The notifier returns         *)
(* NOTIFY_DONE whatever tegra_dvfs_set_rate returned, so the framework is  *)
(* never stopped by it.  pc.hw is the rate each clock runs at, pc.on       *)
(* whether the clock of the change is enabled or prepared, pc.missed the   *)
(* clocks that changed rate while they were neither.                       *)

\* the call of tegra_dvfs_set_rate is recorded with what it returned
ClkEventCalled(s, c, rate) ==
    [Note(s, "set_rate", s.clks[c].dvfs_rail, rate, s.ret) EXCEPT !.ret = 0]

tegra_dvfs_clk_event(s, started, c, on, event, old_rate, new_rate) ==
    IF ~tegra_clk_to_dvfs(s, c) THEN [s EXCEPT !.ret = 0]
    ELSE IF s.clks[c].dvfs_rail = "core" /\ ~started THEN [s EXCEPT !.ret = 0]
    ELSE IF ~on THEN [s EXCEPT !.ret = 0]
    ELSE IF \/ event = "PRE_RATE_CHANGE" /\ old_rate < new_rate
            \/ event = "POST_RATE_CHANGE" /\ old_rate > new_rate
    THEN ClkEventCalled(tegra_dvfs_set_rate(s, started, c, new_rate), c, new_rate)
    ELSE [s EXCEPT !.ret = 0]

NotifiedClks == {"c1", "c2"}
\* the regulator works, or fails from the first write on
ClkFails == {NoFail, [at |-> 1, sticky |-> TRUE]}

PcClk == [at |-> "idle", clk |-> "", old |-> 0, new |-> 0, on |-> TRUE,
          hw |-> [c \in NotifiedClks |-> 0],
          missed |-> [c \in NotifiedClks |-> FALSE]]

InitClk ==
    /\ rails = InitRailsAt(800)
    /\ clks = InitClks
    /\ rels = <<>>
    /\ pc = PcClk
    /\ op = NoOp
    /\ log = <<>>
    /\ pre = Snapshot(rails, clks)

\* clk_set_rate: the PRE_RATE_CHANGE call
ClkPre ==
    \E c \in NotifiedClks, new_rate \in 0 .. MaxRate, on \in BOOLEAN,
       fails \in ClkFails :
        /\ pc.at = "idle" /\ new_rate # pc.hw[c]
        /\ Commit(tegra_dvfs_clk_event(Ctx(rails, clks, fails), TRUE, c, on,
                                       "PRE_RATE_CHANGE", pc.hw[c], new_rate),
                  "PRE_RATE_CHANGE", clks[c].dvfs_rail, c, new_rate)
        /\ pc' = [pc EXCEPT !.at = "pre", !.clk = c, !.old = pc.hw[c],
                            !.new = new_rate, !.on = on]
        /\ UNCHANGED rels

\* the framework programs the new rate
ClkProgram ==
    /\ pc.at = "pre"
    /\ pc' = [pc EXCEPT !.at = "changed", !.hw[pc.clk] = pc.new,
                        !.missed[pc.clk] = @ \/ ~pc.on]
    /\ UNCHANGED <<rails, clks, rels, op, log, pre>>

\* the POST_RATE_CHANGE call
ClkPost ==
    \E fails \in ClkFails :
        /\ pc.at = "changed"
        /\ Commit(tegra_dvfs_clk_event(Ctx(rails, clks, fails), TRUE, pc.clk, pc.on,
                                       "POST_RATE_CHANGE", pc.old, pc.new),
                  "POST_RATE_CHANGE", clks[pc.clk].dvfs_rail, pc.clk, pc.new)
        /\ pc' = [pc EXCEPT !.at = "idle"]
        /\ UNCHANGED rels

\* the change is given up: the ABORT_RATE_CHANGE call
ClkAbort ==
    /\ pc.at = "pre"
    /\ Commit(tegra_dvfs_clk_event(Ctx(rails, clks, NoFail), TRUE, pc.clk, pc.on,
                                   "ABORT_RATE_CHANGE", pc.old, pc.new),
              "ABORT_RATE_CHANGE", clks[pc.clk].dvfs_rail, pc.clk, pc.new)
    /\ pc' = [pc EXCEPT !.at = "idle"]
    /\ UNCHANGED rels

NextClk == ClkPre \/ ClkProgram \/ ClkPost \/ ClkAbort

SpecClk == InitClk /\ [][NextClk]_vars

-----------------------------------------------------------------------------
(* dvfs_rail_set_voltage on its own: the rails are drawn from the states   *)
(* its callers (dvfs_rail_update, tegra_dvfs_suspend_one,                  *)
(* __tegra_dvfs_rail_disable) can hand it, and it is applied once.         *)

RampLevels == {0, 800, 850, 1000}
RampTargets == {0, 800, 850, 950, 1000}
RampSteps == {<<50, 50>>, <<50, 100>>, <<100, 50>>}
RampModes == {"plain", "dfll", "disabled", "noreg", "jmp", "inband_off",
              "dfll_noreg", "dfll_disabled"}
DependentModes == {"plain", "inband_off"}

RampTopologies ==
    { <<>>,
      <<MkRel("cpu", "core", "AtLeast", FALSE)>>,
      <<MkRel("cpu", "core", "AtLeast", FALSE), MkRel("core", "cpu", "AtLeast", FALSE)>>,
      <<MkRel("cpu", "core", "AtLeast", FALSE), MkRel("cpu", "gpu", "AtLeast", FALSE)>> }

WithMode(rail, mode) ==
    [rail EXCEPT !.dfll_mode = (mode \in {"dfll", "dfll_noreg", "dfll_disabled"}),
                 !.disabled = (mode \in {"disabled", "dfll_disabled"}),
                 !.reg = (mode \notin {"noreg", "dfll_noreg"}),
                 !.jmp_to_zero = (mode = "jmp"),
                 !.in_band_pm = (mode = "inband_off"),
                 !.stats_off = (mode = "inband_off")]

RampRail(mv, steps, mode) ==
    WithMode(MkRail(800, 1100, 1000, steps[1], steps[2], <<>>, <<>>, mv), mode)

InitRamp ==
    /\ \E mv \in RampLevels, steps \in RampSteps, mode \in RampModes,
          dmv \in RampLevels \ {0}, dmode \in DependentModes :
            rails = [r \in RailIds |->
                        IF r = "cpu" THEN RampRail(mv, steps, mode)
                        ELSE IF r = "core" THEN RampRail(dmv, <<100, 50>>, dmode)
                        ELSE RampRail(1000, <<50, 50>>, "plain")]
    /\ \E rate \in {0, 1} :
            clks = [InitClks EXCEPT !["c3"].cur_rate = rate,
                                    !["c3"].cur_millivolts = IF rate = 0 THEN 0 ELSE 850]
    /\ rels \in RampTopologies
    /\ pc = PcRun
    /\ op = NoOp
    /\ log = <<>>
    /\ pre = Snapshot(rails, clks)

Ramp ==
    \E target \in RampTargets, fails \in FailSets :
        /\ Idle
        /\ Commit(dvfs_rail_set_voltage(Ctx(rails, clks, fails), "cpu", target),
                  "ramp", "cpu", "", target)
        /\ UNCHANGED <<rels, pc>>

NextRamp == Ramp

SpecRamp == InitRamp /\ [][NextRamp]_vars

-----------------------------------------------------------------------------
(* dvfs_rail_update on its own: the core rail is drawn from the states in  *)
(* which its callers (__tegra_dvfs_set_rate, the thermal push, resume,     *)
(* rail enable, and the ramp of a neighbouring rail) can find it, and it   *)
(* is resolved once.                                                       *)

ResolveLevels == {800, 900, 1000}
ResolveSources == {800, 1000}
ResolveOverrides == {0, 950}
ResolveRates == {0, 1, 2}
ResolveModes == {"plain", "disabled", "suspended", "noreg", "guard",
                 "jmp", "inband", "inband_jmp", "inband_off"}
\* rail->step of the resolved rail; its step_up is 50
ResolveSteps == {50, 100}

ResolveTopologies ==
    { <<>>,
      <<MkRel("cpu", "core", "AtLeast", FALSE), MkRel("core", "gpu", "AtLeast", FALSE)>>,
      <<MkRel("cpu", "core", "AtLeast", FALSE), MkRel("gpu", "core", "ClampToSource", FALSE)>>,
      <<MkRel("gpu", "core", "ClampToSource", FALSE), MkRel("cpu", "core", "AtLeast", FALSE)>>,
      <<MkRel("cpu", "core", "AtLeast", FALSE), MkRel("core", "cpu", "AtLeast", FALSE)>> }

WithResolveMode(rail, mode, override) ==
    [rail EXCEPT !.disabled = (mode = "disabled"),
                 !.suspended = (mode = "suspended"),
                 !.reg = (mode # "noreg"),
                 !.resolving_to = (mode = "guard"),
                 !.jmp_to_zero = (mode \in {"jmp", "inband_jmp"}),
                 !.in_band_pm = (mode \in {"inband", "inband_jmp", "inband_off"}),
                 !.stats_off = (mode = "inband_off"),
                 !.override_millivolts = override]

InitResolve ==
    /\ \E mv \in ResolveLevels, smv \in ResolveSources, mode \in ResolveModes,
          override \in ResolveOverrides, step \in ResolveSteps :
            rails = [r \in RailIds |->
                        IF r = "core"
                        THEN WithResolveMode(MkRail(800, 1100, 1000, step, 50, <<>>, <<>>, mv),
                                             mode, override)
                        ELSE IF r = "cpu"
                        THEN MkRail(800, 1100, 1000, 50, 50, <<>>, <<>>, smv)
                        ELSE MkRail(800, 1100, 1000, 50, 50, <<>>, <<>>, 900)]
    /\ \E rate \in ResolveRates :
            clks = [InitClks EXCEPT !["c3"].cur_rate = rate,
                                    !["c3"].cur_millivolts =
                                        IF rate = 0 THEN 0 ELSE InitClks["c3"].millivolts[rate]]
    /\ rels \in ResolveTopologies
    /\ pc = PcRun
    /\ op = NoOp
    /\ log = <<>>
    /\ pre = Snapshot(rails, clks)

Resolve ==
    \E fails \in FailSets :
        /\ Idle
        /\ Commit(dvfs_rail_update(Ctx(rails, clks, fails), "core"),
                  "resolve", "core", "", 0)
        /\ UNCHANGED <<rels, pc>>

\* the same call once more, with nothing done in between; pc keeps the
\* record of the first call
ResolveAgain ==
    /\ op.name = "resolve"
    /\ Commit(dvfs_rail_update(Ctx(rails, clks, NoFail), "core"),
              "resolve_again", "core", "", 0)
    /\ pc' = [at |-> "again", ret |-> op.ret, before |-> pre, dirty |-> FALSE,
              first |-> log]
    /\ UNCHANGED rels

NextResolve == Resolve \/ ResolveAgain

SpecResolve == InitResolve /\ [][NextResolve]_vars

-----------------------------------------------------------------------------
(* tegra_dvfs_init_therm_limits on its own: the core rail's descriptor     *)
(* comes with a floor table and a cap table drawn from the arrays below,   *)
(* and the tables are validated once.                                      *)

ThermEntries ==
    { ThermLimit(0, 0), ThermLimit(20, 1100), ThermLimit(20, 1000),
      ThermLimit(50, 900), ThermLimit(50, 750), ThermLimit(80, 900) }

ThermTables == [1 .. MAX_THERMAL_LIMITS -> ThermEntries]

NoThermTable == [i \in 1 .. MAX_THERMAL_LIMITS |-> ThermLimit(0, 0)]
GoodThermTable ==
    [i \in 1 .. MAX_THERMAL_LIMITS |->
        IF i = 1 THEN ThermLimit(20, 1000)
        ELSE IF i = 2 THEN ThermLimit(50, 900) ELSE ThermLimit(0, 0)]
HighThermTable ==
    [i \in 1 .. MAX_THERMAL_LIMITS |->
        IF i = 1 THEN ThermLimit(20, 1100)
        ELSE IF i = 2 THEN ThermLimit(50, 900) ELSE ThermLimit(0, 0)]
PlainThermTables == {NoThermTable, GoodThermTable, HighThermTable}

\* the descriptor before validation: sizes and indices are still zero
RawRail(floors, caps) ==
    [MkRail(800, 1100, 1000, 50, 50, <<>>, <<>>, 0)
        EXCEPT !.therm_floors = floors, !.therm_caps = caps,
               !.reg = FALSE, !.is_ready = FALSE]

InitTherm ==
    /\ \E t \in ThermTables, u \in PlainThermTables, swap \in BOOLEAN :
            rails = [r \in RailIds |->
                        IF r = "core"
                        THEN IF swap THEN RawRail(u, t) ELSE RawRail(t, u)
                        ELSE MkRail(800, 1100, 1000, 50, 50, <<>>, <<>>, 0)]
    /\ clks = InitClks
    /\ rels = <<>>
    /\ pc = PcRun
    /\ op = NoOp
    /\ log = <<>>
    /\ pre = Snapshot(rails, clks)

InitThermLimits ==
    /\ Idle
    /\ Commit([Ctx(rails, clks, NoFail)
                   EXCEPT !.rails["core"] = tegra_dvfs_init_therm_limits(rails["core"])],
              "init_therm", "core", "", 0)
    /\ UNCHANGED <<rels, pc>>

NextTherm == InitThermLimits

SpecTherm == InitTherm /\ [][NextTherm]_vars
-----------------------------------------------------------------------------
(* Reading the record of the last trigger.                                 *)

LogIdx == 1 .. Len(log)
Happened(k, r) == \E i \in LogIdx : log[i].k = k /\ log[i].r = r
\* the values of the events of kind k on rail r, in order
ValuesOf(k, r) ==
    LET es == SelectSeq(log, LAMBDA e : e.k = k /\ e.r = r)
    IN [i \in 1 .. Len(es) |-> es[i].a]
AllWritesOk == \A i \in LogIdx : log[i].k = "write" => log[i].b
NoForcedStep == \A i \in LogIdx : log[i].k = "ramp" => ~log[i].b.forced
CurDemand(r) == MaxDemandOf(clks, DvfsOf(r, clks))
Cyclic == \E e1, e2 \in {rels[i] : i \in 1 .. Len(rels)} :
              e1.from = e2.to /\ e1.to = e2.from

-----------------------------------------------------------------------------
(* C1: a regulator-bound, enabled rail outside continuous-control mode     *)
(* that has just been resolved with nonzero clock demand has its voltage   *)
(* inside [effective-min, effective-max].                                  *)

C1_VoltageWithinLimits ==
    \A r \in RailIds :
        (/\ rails[r].reg /\ ~rails[r].disabled /\ ~rails[r].dfll_mode
         /\ Happened("resolved", r)
         /\ CurDemand(r) # 0)
        => /\ EffectiveMin(rails[r]) <= rails[r].millivolts
           /\ rails[r].millivolts <= EffectiveMax(rails[r])

(* C2: on a rail with no incoming edges, no thermal table and no override, *)
(* the resolve of a set_rate leaves the rail at                            *)
(* clamp(max clock demand, rail min, rail max).  (An idle rail is held,    *)
(* so the statement is made for a nonzero maximum.)                        *)

C2_ResolveTargetIsClampedDemand ==
    \A r \in RailIds :
        (/\ op.name = "set_rate" /\ op.rail = r /\ op.ret = 0
         /\ Happened("resolved", r)
         /\ RelsFrom(r) = <<>>
         /\ rails[r].therm_floors = <<>> /\ rails[r].therm_caps = <<>>
         /\ rails[r].override_millivolts = 0
         /\ CurDemand(r) # 0)
        => rails[r].millivolts =
              ClampVal(CurDemand(r), rails[r].min_millivolts, rails[r].max_millivolts)

ResolveOf(i) ==
    CHOOSE j \in 1 .. i :
        /\ log[j].k = "resolve" /\ log[j].r = log[i].r
        /\ \A m \in (j + 1) .. i : ~(log[m].k = "resolve" /\ log[m].r = log[i].r)

(* C4: with circular edges every resolve terminates: the nesting of        *)
(* dvfs_rail_update never reaches MaxDepth, and the i-th pass of a         *)
(* resolve's fixed-point loop has i <= ceil(|demand - current| / step) + 1. *)

C4_ResolveTerminates ==
    /\ ~op.overflow
    /\ \A i \in LogIdx :
          log[i].k = "iter" =>
              LET e == log[ResolveOf(i)]
              IN log[i].b + 1 <=
                    DivRoundUp(Abs(e.a - e.mv[e.r]), rails[e.r].step) + 1

C4_Witness ==
    /\ Cyclic
    /\ \E i \in LogIdx : log[i].k = "skip" /\ log[i].r \in log[i].guards
    /\ \E i \in LogIdx : log[i].k = "iter" /\ log[i].b >= 1

(* C6: after a floor-index push that leaves the effective floor above the  *)
(* maximum clock demand, the rail stands at the floor.                     *)

C6_FloorPushRaisesRail ==
    (/\ op.name = "FLOOR"
     /\ pre.rails["core"].therm_floor_idx # rails["core"].therm_floor_idx
     /\ Happened("resolved", "core")
     /\ RelsFrom("core") = <<>>
     /\ CurDemand("core") # 0
     /\ EffectiveMin(rails["core"]) > CurDemand("core")
     /\ EffectiveMin(rails["core"]) <= EffectiveMax(rails["core"]))
    => rails["core"].millivolts = EffectiveMin(rails["core"])

-----------------------------------------------------------------------------
RampedRail == pre.rails[op.rail]
RampStepSize ==
    IF op.arg > RampedRail.millivolts THEN RampedRail.step_up ELSE RampedRail.step

C3_Case ==
    /\ op.name = "ramp"
    /\ RampedRail.reg /\ ~RampedRail.disabled /\ ~RampedRail.dfll_mode
    /\ NoForcedStep
    /\ AllWritesOk

(* C3: a stepped ramp with every write succeeding issues                   *)
(* ceil(|target - current| / step) writes, each at most one step from the  *)
(* value before it and strictly nearer the target, the last one the target. *)

C3_SteppedRamp ==
    C3_Case =>
        LET w == ValuesOf("write", op.rail)
            cur == RampedRail.millivolts
            before(i) == IF i = 1 THEN cur ELSE w[i - 1]
        IN /\ Len(w) = DivRoundUp(Abs(op.arg - cur), RampStepSize)
           /\ \A i \in 1 .. Len(w) :
                 /\ Abs(w[i] - before(i)) <= RampStepSize
                 /\ Abs(op.arg - w[i]) < Abs(op.arg - before(i))
                 /\ (op.arg > cur) = (w[i] > before(i))
           /\ (Len(w) > 0 => w[Len(w)] = op.arg)
           /\ rails[op.rail].millivolts = op.arg
           /\ op.ret = 0

C3_Witness ==
    /\ C3_Case
    /\ RampedRail.millivolts = 800 /\ op.arg = 1000 /\ RampStepSize = 50
    /\ ValuesOf("write", op.rail) = <<850, 900, 950, 1000>>

OpenRamps(i) ==
    {r \in RailIds :
        Cardinality({j \in 1 .. i : log[j].k = "ramp" /\ log[j].r = r})
          > Cardinality({j \in 1 .. i : log[j].k = "ramp_end" /\ log[j].r = r})}

(* C5: the guard of a rail is set exactly while a ramp of that rail is     *)
(* open, at every point of a trigger, and no guard is set once the trigger *)
(* has returned, whichever way its ramps ended.                            *)

C5_GuardOnlyDuringOwnRamp ==
    /\ \A r \in RailIds : ~rails[r].resolving_to
    /\ \A i \in LogIdx : log[i].guards = OpenRamps(i)

C5_Witness ==
    /\ op.name = "ramp" /\ op.ret # 0
    /\ \E i \in LogIdx :
          log[i].k = "write" /\ ~log[i].b /\ log[i].r = "core"
          /\ log[i].guards = {"cpu", "core"}
    /\ \A r \in RailIds : ~rails[r].resolving_to

C7_Case ==
    /\ op.name = "ramp"
    /\ RampedRail.reg /\ RampedRail.dfll_mode

(* C7: in continuous-control mode a ramp changes the rail's voltage once,  *)
(* straight to the target, whatever the distance and the step sizes.       *)

C7_DfllDirect ==
    C7_Case =>
        /\ ValuesOf("set", op.rail) = <<op.arg>>
        /\ rails[op.rail].millivolts = op.arg
        /\ rails[op.rail].new_millivolts = op.arg
        /\ op.ret = 0

C7_Witness ==
    /\ C7_Case
    /\ Abs(op.arg - RampedRail.millivolts) > 2 * RampedRail.step
    /\ Abs(op.arg - RampedRail.millivolts) > 2 * RampedRail.step_up
    /\ rails[op.rail].millivolts = op.arg

-----------------------------------------------------------------------------
(* Suspend and resume claims, checked under SpecPm.                        *)

EventIdx(k) == {i \in LogIdx : log[i].k = k}
MarkIdx(r) == {i \in LogIdx : log[i].k = "mark" /\ log[i].r = r}
\* the position of the rollback in the log of a failed suspend, 0 if none
RollbackAt == IF EventIdx("rollback") = {} THEN 0
              ELSE CHOOSE i \in EventIdx("rollback") : TRUE
WritesOkFrom(n) == \A i \in LogIdx : (i > n /\ log[i].k = "write") => log[i].b
Independent(r) == RelsFrom(r) = <<>>
Chain == rels = <<MkRel("core", "cpu", "AtLeast", FALSE)>>
\* the voltage a resolve of r aims at with the clocks as they are
ResolvedLevel(r) == dvfs_rail_apply_limits(rails[r], CurDemand(r))

(* C8: during tegra_dvfs_suspend a rail is marked suspended only when the  *)
(* source of each of its incoming edges is already suspended, or disabled, *)
(* or the edge is solved_at_nominal; the rails suspended at the end are    *)
(* the marked ones; and on the chain core -> cpu (cpu depends on core,     *)
(* the edge not solved_at_nominal, core enabled) core is marked before cpu.*)

C8_SuspendOrder ==
    op.name = "suspend" =>
        /\ \A i \in EventIdx("mark") :
              \A j \in 1 .. Len(RelsFrom(log[i].r)) :
                  LET rel == RelsFrom(log[i].r)[j]
                  IN \/ log[i].susp[rel.from]
                     \/ pre.rails[rel.from].disabled
                     \/ rel.solved_at_nominal
        /\ \A r \in RailIds :
              (op.ret = 0 /\ rails[r].suspended) => MarkIdx(r) # {}
        /\ (Chain /\ ~pre.rails["core"].disabled) =>
              \A i \in MarkIdx("cpu") : \E j \in MarkIdx("core") : j < i

C8_Witness ==
    /\ op.name = "suspend" /\ op.ret = 0
    /\ Chain /\ ~pre.rails["core"].disabled
    /\ \E i \in MarkIdx("cpu") : \E j \in MarkIdx("core") : j < i

SuspendFailed ==
    /\ op.name = "suspend"
    /\ \E i \in LogIdx :
          \/ log[i].k = "deadlock"
          \/ /\ log[i].k = "ramp_end" /\ log[i].depth = 0 /\ log[i].b # 0
             /\ (RollbackAt = 0 \/ i < RollbackAt)

RolledBack ==
    /\ op.ret # 0
    /\ RollbackAt # 0
    /\ \A r \in RailIds : ~rails[r].suspended
    /\ \A r \in RailIds :
          \E i \in LogIdx : /\ i > RollbackAt /\ log[i].r = r /\ log[i].depth <= 1
                            /\ log[i].k \in {"skip", "hold", "resolve"}

(* C9 as stated: a suspend that meets a dependency deadlock or a failed    *)
(* suspend ramp returns the error, clears every suspended flag, updates    *)
(* every rail, and leaves every rail at the voltage it had before.         *)

RoundTrip ==
    /\ op.name = "resume"
    /\ ~pc.dirty
    /\ AllWritesOk
    /\ pc.before.clks = clks

(* C10 as stated: after suspend and resume with the clocks and flags       *)
(* unchanged, every rail with no incoming edges, idle ones included, is at *)
(* the voltage it had before the suspend.                                  *)

-----------------------------------------------------------------------------
(* Rate requests and voltage prediction.                                   *)

TableMax(d) == dvfs_get_freqs(d)[d.num_freqs]

\* the first entry of an ascending table that is at least the rate
FirstAtLeast(freqs, rate) ==
    CHOOSE i \in 1 .. Len(freqs) :
        freqs[i] >= rate /\ \A j \in 1 .. (i - 1) : freqs[j] < rate

TableVoltage(d, rate) == d.millivolts[FirstAtLeast(dvfs_get_freqs(d), rate)]

AboveCeiling(d, rate) ==
    /\ rate > 0 /\ rate <= TableMax(d)
    /\ d.max_millivolts # 0
    /\ TableVoltage(d, rate) > d.max_millivolts

C13_Case ==
    /\ op.name = "set_rate"
    /\ \/ op.arg > TableMax(pre.clks[op.clk])
       \/ AboveCeiling(pre.clks[op.clk], op.arg)

(* C13: a set_rate whose rate is above the highest entry of the clock's    *)
(* active table, or whose table voltage is above the clock's own ceiling,  *)
(* returns an error, leaves the clock's rate and demand and every rail's   *)
(* current and pending voltage as they were, and writes no regulator.      *)

C14_SetRateCase ==
    /\ op.name = "set_rate"
    /\ op.arg <= TableMax(pre.clks[op.clk])

C14_PredictValue ==
    IF op.clk \notin ClkIds THEN op.ret < 0
    ELSE IF op.arg = 0 THEN op.ret = 0
    ELSE IF op.arg > TableMax(pre.clks[op.clk]) THEN op.ret < 0
    ELSE op.ret = TableVoltage(pre.clks[op.clk], op.arg)

C14_PredictPart ==
    op.name = "predict" =>
        /\ C14_PredictValue
        /\ rails = pre.rails /\ clks = pre.clks /\ log = <<>>

(* C14 as stated: every rate from 0 to the table maximum is recorded by    *)
(* set_rate as the voltage of the first table entry at or above it (zero   *)
(* for rate 0), and predict returns that voltage and changes nothing.      *)

-----------------------------------------------------------------------------
(* Switching a clock to and from its alternate table.                      *)

\* the table a selection stands for
TableOf(d, alt) == IF alt THEN d.alt_freqs ELSE d.freqs

C15_Case ==
    /\ op.name = "use_alt"
    /\ op.clk \in ClkIds
    /\ pre.clks[op.clk].alt_freqs # <<>>
    /\ pre.clks[op.clk].use_alt_freqs # (op.arg = 1)

\* the clock's rate has an entry in the requested table and the voltage
\* paired with it is allowed, so that applying the table cannot fail
C15_Applies ==
    LET d == [pre.clks[op.clk] EXCEPT !.use_alt_freqs = (op.arg = 1)]
    IN /\ d.cur_rate <= TableMax(d)
       /\ ~AboveCeiling(d, d.cur_rate)

(* C15: switching a clock that has an alternate table to or from it        *)
(* selects the requested table, re-derives the clock's demand for its      *)
(* current rate from that table and re-resolves the rail; when applying    *)
(* fails the previous selection is back, the rail is resolved with it and  *)
(* an error is returned.                                                   *)

C15_AltSwitch ==
    C15_Case =>
        IF C15_Applies
        THEN /\ op.ret = 0
             /\ clks[op.clk].use_alt_freqs = (op.arg = 1)
             /\ clks[op.clk].cur_millivolts =
                    IF clks[op.clk].cur_rate = 0 THEN 0
                    ELSE TableVoltage(clks[op.clk], clks[op.clk].cur_rate)
             /\ Happened("resolve", pre.clks[op.clk].dvfs_rail)
        ELSE /\ op.ret < 0
             /\ clks[op.clk].use_alt_freqs = pre.clks[op.clk].use_alt_freqs
             /\ Happened("resolve", pre.clks[op.clk].dvfs_rail)

-----------------------------------------------------------------------------
(* Regulator errors.                                                       *)

WriteFailed == \E i \in LogIdx : log[i].k = "write" /\ ~log[i].b

(* C16: when a regulator write fails at any point of the resolve that a    *)
(* set_rate call starts, on the clock's own rail or on a rail reached by   *)
(* propagation, that set_rate call returns an error.                       *)

C16_WriteFailureReachesCaller ==
    (op.name = "set_rate" /\ WriteFailed) => op.ret < 0

\* the ramp of rail log[i].r that event i belongs to starts here: a rail is
\* not ramped again inside its own ramp
RampStartOf(i) ==
    CHOOSE j \in 1 .. i :
        /\ log[j].k = "ramp" /\ log[j].r = log[i].r
        /\ \A m \in (j + 1) .. i : ~(log[m].k = "ramp" /\ log[m].r = log[i].r)

\* the writes of that ramp that succeeded before event i
GoodWritesBefore(i) ==
    {m \in RampStartOf(i) .. (i - 1) :
        log[m].k = "write" /\ log[m].r = log[i].r /\ log[m].b}

LastGoodBefore(i) ==
    IF GoodWritesBefore(i) = {} THEN log[RampStartOf(i)].mv[log[i].r]
    ELSE log[CHOOSE m \in GoodWritesBefore(i) :
                 \A n \in GoodWritesBefore(i) : n <= m].a

FailedWrites == {i \in LogIdx : log[i].k = "write" /\ ~log[i].b}

(* C17: a regulator write that fails in a ramp ends that ramp call at once *)
(* with an error: the ramp issues no further write and notifies no further *)
(* rail, and the rail's current voltage is the last value written with     *)
(* success, or its value before the ramp when the first write failed.      *)

C17_FailedWriteAbortsRamp ==
    \A i \in FailedWrites :
        /\ i < Len(log)
        /\ log[i + 1].k = "ramp_end"
        /\ log[i + 1].r = log[i].r
        /\ log[i + 1].b < 0
        /\ log[i + 1].mv[log[i].r] = LastGoodBefore(i)

\* a write fails after an earlier step of the same ramp was written and
\* announced to a dependent rail
C17_Witness ==
    \E i \in FailedWrites :
        /\ GoodWritesBefore(i) # {}
        /\ RelsTo(log[i].r) # <<>>
        /\ log[i + 1].k = "ramp_end"
        /\ log[i + 1].mv[log[i].r] # log[i].a
        /\ log[i + 1].mv[log[i].r] # log[RampStartOf(i)].mv[log[i].r]

-----------------------------------------------------------------------------
(* The passes of tegra_dvfs_suspend.                                       *)

\* the events of the suspend loop: those before the rollback, if any
LoopIdx == {i \in LogIdx : RollbackAt = 0 \/ i < RollbackAt}

\* the suspended flags before event i
SuspBefore(i) ==
    IF i = 1 THEN [r \in RailIds |-> pre.rails[r].suspended] ELSE log[i - 1].susp

\* a pass of tegra_dvfs_suspend_one ends with a rail marked, with no rail
\* eligible, or with its ramp failing
PassMarks == {i \in LoopIdx : log[i].k = "mark"}
PassErrors ==
    {i \in LoopIdx :
        \/ log[i].k = "deadlock"
        \/ log[i].k = "ramp_end" /\ log[i].depth = 0 /\ log[i].b # 0}

(* C20: tegra_dvfs_suspend terminates after at most one pass per rail and  *)
(* one more: every pass either marks exactly one more rail suspended or    *)
(* ends the loop with an error, and a suspend that returns 0 leaves every  *)
(* rail suspended or disabled.                                             *)

C20_SuspendTerminates ==
    op.name = "suspend" =>
        /\ \A i \in PassMarks :
               /\ ~SuspBefore(i)[log[i].r]
               /\ log[i].susp = [SuspBefore(i) EXCEPT ![log[i].r] = TRUE]
        /\ \A i \in LoopIdx \ PassMarks : log[i].susp = SuspBefore(i)
        /\ \A i \in PassErrors :
               /\ RollbackAt = i + 1
               /\ op.ret = log[RollbackAt].a /\ op.ret # 0
        /\ Cardinality(PassMarks) + Cardinality(PassErrors) <= Cardinality(RailIds) + 1
        /\ Cardinality(PassErrors) <= 1
        /\ (op.ret # 0) = (PassErrors # {})
        /\ op.ret = 0 => \A r \in RailIds : rails[r].suspended \/ rails[r].disabled

\* a suspend that succeeded in one pass per enabled rail, after an earlier
\* pass of the same loop had ramped a rail up to its suspend level
C20_Witness ==
    /\ op.name = "suspend" /\ op.ret = 0
    /\ \E r \in RailIds : rails[r].disabled
    /\ Cardinality(PassMarks) = Cardinality({r \in RailIds : ~rails[r].disabled})
    /\ Cardinality(PassMarks) >= 2
    /\ \E i \in PassMarks : log[i].a > pre.rails[log[i].r].millivolts

-----------------------------------------------------------------------------
(* A rail whose regulator cannot be bound.                                 *)

(* C18: when binding a rail to its regulator fails in the connect phase,   *)
(* whether at the connect, the enable or the first read of the voltage,    *)
(* that rail ends with its disabled flag set, whatever disable level is    *)
(* configured, and tegra_dvfs_regulator_init reports the error.            *)

C18_FailedConnectDisablesRail ==
    (op.name = "regulator_init" /\ pc.at = "failed") =>
        /\ op.ret < 0
        /\ rails[op.rail].disabled

-----------------------------------------------------------------------------
(* Thermal index pushes.                                                   *)

ThermalPush == op.name \in ThermalTypes
PushAccepted == op.name \in {"FLOOR", "CAP"} /\ pre.rails["core"].is_ready
ThermIdx(rs) ==
    IF op.name = "FLOOR" THEN rs["core"].therm_floor_idx
    ELSE rs["core"].therm_cap_idx
\* dvfs_rail_update was entered for the core rail by the push itself
CoreUpdateRan ==
    /\ log # <<>>
    /\ log[1].r = "core" /\ log[1].depth <= 1
    /\ log[1].k \in {"skip", "hold", "resolve"}
NothingChanged == rails = pre.rails /\ clks = pre.clks /\ log = <<>>

(* C19: a thermal floor or cap index pushed for the ready core rail that   *)
(* differs from the stored one is stored and the rail's resolve is run     *)
(* before the call returns; a push of the stored value runs no resolve; a  *)
(* push of an unknown kind, or before the rail is ready, returns an error  *)
(* and changes nothing.                                                    *)

C19_ThermalPush ==
    /\ (PushAccepted /\ op.arg # ThermIdx(pre.rails)) =>
           (ThermIdx(rails) = op.arg /\ CoreUpdateRan)
    /\ (PushAccepted /\ op.arg = ThermIdx(pre.rails)) => NothingChanged
    /\ (ThermalPush /\ ~PushAccepted) => (op.ret < 0 /\ NothingChanged)

\* a new cap index is stored for the busy core rail and its demand is
\* resolved again
C19_Witness ==
    /\ PushAccepted /\ op.name = "CAP"
    /\ op.arg # ThermIdx(pre.rails)
    /\ ThermIdx(rails) = op.arg
    /\ CurDemand("core") # 0
    /\ Happened("resolve", "core")

-----------------------------------------------------------------------------
(* Triggers around dvfs_lock.                                              *)

Holding(t) == pc.th[t].at \in {"in", "done"}

(* C11: the triggers never interleave: between the first and the last step *)
(* of a set_rate, thermal push, rail enable or disable, suspend or resume, *)
(* all of which it takes holding dvfs_lock, no other trigger changes the   *)
(* graph or writes a regulator.                                            *)

C11_TriggersDoNotInterleave ==
    /\ \A t \in Threads : ~pc.th[t].dirty
    /\ \A t \in Threads, u \in Threads : (Holding(t) /\ Holding(u)) => t = u

(* C12: no trigger takes the lock while a failed suspend has left rails    *)
(* marked suspended and its rollback has not run yet, and a clock-rate     *)
(* notification does not read the rails and clocks before it holds the     *)
(* lock.                                                                   *)

C12_NoPartialUpdateSeen ==
    /\ \A t \in Threads : ~pc.th[t].saw_partial
    /\ ~pc.th["clk"].read_unlocked

-----------------------------------------------------------------------------
(* The early returns of dvfs_rail_set_voltage, checked under SpecRamp.     *)

\* nothing but the value returned tells that the ramp was called
RampDidNothing == rails = pre.rails /\ clks = pre.clks /\ log = <<>>

C28_Case == op.name = "ramp" /\ ~RampedRail.reg

(* C28: a ramp of a rail with no regulator bound succeeds exactly when the *)
(* target is the rail's current voltage and fails otherwise; either way    *)
(* the rail's current and pending voltage and its guard are as before and  *)
(* no dependent rail is resolved.                                          *)

C28_NoRegulatorRamp ==
    C28_Case =>
        /\ (op.ret = 0) = (op.arg = RampedRail.millivolts)
        /\ op.ret <= 0
        /\ RampDidNothing

\* both outcomes on a rail that other rails depend on
C28_Witness ==
    /\ C28_Case /\ RelsTo(op.rail) # <<>>
    /\ op.arg # RampedRail.millivolts
    /\ op.ret = 0 - EINVAL

C29_Case ==
    /\ op.name = "ramp"
    /\ RampedRail.reg /\ RampedRail.disabled /\ ~RampedRail.dfll_mode

(* C29: a ramp of a disabled, regulator-bound rail outside                 *)
(* continuous-control mode returns success and changes nothing: no         *)
(* voltage, no regulator write, no dependent rail resolved.                *)

C29_DisabledRamp == C29_Case => (op.ret = 0 /\ RampDidNothing)

\* the target is steps away and a dependent rail would have had to follow
C29_Witness ==
    /\ C29_Case /\ RelsTo(op.rail) # <<>>
    /\ op.arg > RampedRail.millivolts + RampedRail.step_up
    /\ op.ret = 0

C30_Case == op.name = "ramp" /\ RampedRail.dfll_mode

(* C30: a ramp of a rail in continuous-control mode writes no regulator,   *)
(* resolves no rail on its outgoing edges and never sets the recursion     *)
(* guard; nothing changes but the rail's own current and pending voltage,  *)
(* which a regulator-bound rail has at the target afterwards.              *)

C30_DfllRampIsLocal ==
    C30_Case =>
        /\ \A i \in LogIdx :
               /\ log[i].k \notin {"write", "notify", "ramp", "resolve", "skip", "hold"}
               /\ log[i].guards = Guards(pre.rails)
        /\ \A r \in RailIds \ {op.rail} : rails[r] = pre.rails[r]
        /\ rails[op.rail] =
               [pre.rails[op.rail] EXCEPT !.millivolts = rails[op.rail].millivolts,
                                          !.new_millivolts = rails[op.rail].new_millivolts]
        /\ RampedRail.reg =>
               /\ rails[op.rail].millivolts = op.arg
               /\ rails[op.rail].new_millivolts = op.arg

\* a disabled rail with dependents is moved by more than a step
C30_Witness ==
    /\ C30_Case /\ RampedRail.reg /\ RampedRail.disabled
    /\ RelsTo(op.rail) # <<>>
    /\ Abs(op.arg - RampedRail.millivolts) > RampedRail.step_up
    /\ rails[op.rail].millivolts = op.arg
    /\ rails["core"].millivolts < op.arg

-----------------------------------------------------------------------------
(* The two notifications of a ramp step, checked under SpecRamp.           *)

Writes == {i \in LogIdx : log[i].k = "write"}
GoodWrites == {i \in Writes : log[i].b}

\* the step of write i starts after the ramp's entry or its previous step
StepStart(i) ==
    CHOOSE j \in 1 .. (i - 1) :
        /\ log[j].r = log[i].r /\ log[j].k \in {"ramp", "set"}
        /\ \A m \in (j + 1) .. (i - 1) :
               ~(log[m].r = log[i].r /\ log[m].k \in {"ramp", "set"})

\* and ends at the next write of the rail or at the end of its ramp
StepEnd(i) ==
    CHOOSE j \in (i + 1) .. Len(log) :
        /\ log[j].r = log[i].r /\ log[j].k \in {"write", "ramp_end"}
        /\ \A m \in (i + 1) .. (j - 1) :
               ~(log[m].r = log[i].r /\ log[m].k \in {"write", "ramp_end"})

\* the rails that the rail of write i told, before the write, that it goes
\* from its old voltage to the value written
ToldBefore(i) ==
    {log[j].r : j \in {m \in (StepStart(i) + 1) .. (i - 1) :
                          /\ log[m].k = "notify" /\ log[m].a = log[i].r
                          /\ log[m].mv[log[i].r] = log[i].mv[log[i].r]
                          /\ log[m].nmv[log[i].r] = log[i].a}}

\* the rails that it told, after the write, that it is at the value written
ToldAfter(i) ==
    {log[j].r : j \in {m \in (i + 1) .. (StepEnd(i) - 1) :
                          /\ log[m].k = "notify" /\ log[m].a = log[i].r
                          /\ log[m].mv[log[i].r] = log[i].a
                          /\ log[m].nmv[log[i].r] = log[i].a}}

Dependents(r) == {RelsTo(r)[k].to : k \in 1 .. Len(RelsTo(r))}
DependentsUpTo(r, n) == {RelsTo(r)[k].to : k \in 1 .. n}

(* C22 as stated: in every step of a ramp every rail on the outgoing edges *)
(* is resolved before the write, with the ramping rail's current voltage   *)
(* old and its pending voltage new, and every one of them again after the  *)
(* write, with current equal to pending.                                   *)

C22_Original ==
    /\ \A i \in Writes : ToldBefore(i) = Dependents(log[i].r)
    /\ \A i \in GoodWrites : ToldAfter(i) = Dependents(log[i].r)

(* C22 amended: every write of a ramp step comes after the resolve of      *)
(* every rail on the outgoing edges, called with the ramping rail's        *)
(* current voltage old and its pending voltage new; after a write that     *)
(* succeeded the outgoing-edge rails are resolved again in registration    *)
(* order with current equal to pending, all of them unless one of these    *)
(* resolves returns an error, which ends the ramp with that error.         *)

C22_NotifyAroundWrite ==
    /\ \A i \in Writes : ToldBefore(i) = Dependents(log[i].r)
    /\ \A i \in GoodWrites :
           \E n \in 1 .. Len(RelsTo(log[i].r)) \cup {Len(RelsTo(log[i].r))} :
               /\ ToldAfter(i) = DependentsUpTo(log[i].r, n)
               /\ n < Len(RelsTo(log[i].r)) =>
                      /\ log[StepEnd(i)].k = "ramp_end"
                      /\ log[StepEnd(i)].b # 0

\* a two-step ramp of a rail with two dependents, all of it succeeding
C22_Witness ==
    /\ op.name = "ramp" /\ op.ret = 0
    /\ Len(RelsTo(op.rail)) = 2
    /\ Cardinality({i \in GoodWrites : log[i].r = op.rail}) >= 2
    /\ \A i \in GoodWrites :
           log[i].r = op.rail =>
               (ToldBefore(i) = {"core", "gpu"} /\ ToldAfter(i) = {"core", "gpu"})
    /\ \E i \in GoodWrites : log[i].r = "core"

-----------------------------------------------------------------------------
(* The order of a source rail's writes and its dependents' voltages,       *)
(* checked under SpecRamp with the platform solver SolveAtLeast, whose g   *)
(* is the identity.                                                        *)

EdgeSet == {rels[k] : k \in 1 .. Len(rels)}
\* the edges of the claim: B must be at least A, and A does not depend on B
FloorEdges == {e \in EdgeSet : e.kind = "AtLeast" /\ RelsTo(e.to) = <<>>}
Resolvable(rail) == ~rail.disabled /\ ~rail.suspended /\ rail.reg
\* B is at least A when the ramp starts
StartsCovered(e) == pre.rails[e.to].millivolts >= pre.rails[e.from].millivolts

\* each write that raises A to v finds B at v or above
RaisedUnderCover(e) ==
    \A i \in GoodWrites :
        (log[i].r = e.from /\ log[i].a > log[i].mv[e.from]) =>
            log[i].mv[e.to] >= log[i].a

\* while A is lowered, B is never below A
LoweredUnderCover(e) ==
    (StartsCovered(e) /\ op.arg < pre.rails[e.from].millivolts) =>
        \A i \in LogIdx : log[i].mv[e.to] >= log[i].mv[e.from]

(* C23 as stated: for an acyclic edge A -> B whose solver keeps B at least *)
(* g(A), with B enabled, not suspended, regulator-bound and all writes     *)
(* succeeding, each write that raises A to v finds B's current voltage     *)
(* already at g(v) or above, and while A is lowered B's current voltage is *)
(* never below g(A's current voltage).                                     *)

C23_WitnessLowered ==
    /\ op.name = "ramp" /\ op.ret = 0 /\ AllWritesOk
    /\ \E e \in FloorEdges :
           /\ e.from = op.rail /\ e.to = "core" /\ CurDemand("core") # 0
           /\ StartsCovered(e) /\ op.arg < pre.rails[op.rail].millivolts
           /\ Cardinality({i \in GoodWrites : log[i].r = op.rail}) >= 2
           /\ rails["core"].millivolts < pre.rails["core"].millivolts

-----------------------------------------------------------------------------
(* The early returns of resolve, checked under SpecResolve.                *)

ResolvedRail == pre.rails[op.rail]
OnlyKinds(K) == \A i \in LogIdx : log[i].k \in K

C24_Case ==
    /\ op.name = "resolve"
    /\ \/ ResolvedRail.disabled \/ ResolvedRail.suspended
       \/ ~ResolvedRail.reg \/ ResolvedRail.resolving_to

(* C24: resolve on a rail that is disabled, suspended, without a regulator *)
(* or with its recursion guard set returns success and changes nothing: no *)
(* rail's current or pending voltage changes, no regulator write is        *)
(* issued, and no other rail is resolved.                                  *)

C24_SkippedResolveIsNoop ==
    C24_Case =>
        /\ op.ret = 0
        /\ rails = pre.rails /\ clks = pre.clks
        /\ OnlyKinds({"skip"})

\* a suspended rail whose clocks ask for more than it has, with a rail
\* that depends on it
C24_Witness ==
    /\ C24_Case /\ ResolvedRail.suspended
    /\ CurDemand(op.rail) > ResolvedRail.millivolts
    /\ RelsTo(op.rail) # <<>> /\ RelsFrom(op.rail) # <<>>

-----------------------------------------------------------------------------
(* Resolve without clock demand, checked under SpecResolve.                *)

C25_Case ==
    /\ op.name = "resolve"
    /\ ~ResolvedRail.disabled /\ ~ResolvedRail.suspended
    /\ ResolvedRail.reg /\ ~ResolvedRail.resolving_to
    /\ CurDemand(op.rail) = 0

(* C25: when the largest clock demand of a rail is zero, resolve leaves    *)
(* the voltage as it is and returns success if the rail is under external  *)
(* power sequencing or may not reach zero; otherwise it goes on with a     *)
(* demand of 0, and the rail is ramped to 0 when no incoming edge and no   *)
(* failing write keeps it up.                                              *)

C25_ZeroDemand ==
    C25_Case =>
        IF ResolvedRail.in_band_pm \/ ~ResolvedRail.jmp_to_zero
        THEN /\ op.ret = 0
             /\ rails = pre.rails /\ clks = pre.clks
             /\ OnlyKinds({"hold"})
        ELSE /\ log # <<>>
             /\ log[1].k = "resolve" /\ log[1].r = op.rail /\ log[1].a = 0
             /\ (RelsFrom(op.rail) = <<>> /\ AllWritesOk) =>
                    (op.ret = 0 /\ rails[op.rail].millivolts = 0)

\* a rail that may not reach zero is held although a rail it depends on
\* is above it
C25_Witness ==
    /\ C25_Case
    /\ ~ResolvedRail.in_band_pm /\ ~ResolvedRail.jmp_to_zero
    /\ RelsFrom(op.rail) # <<>>
    /\ pre.rails["cpu"].millivolts > ResolvedRail.millivolts
    /\ log # <<>>

\* a rail that may reach zero is turned off
C25_WitnessOff ==
    /\ C25_Case
    /\ ~ResolvedRail.in_band_pm /\ ResolvedRail.jmp_to_zero
    /\ ResolvedRail.millivolts > 0 /\ rails[op.rail].millivolts = 0
    /\ \E i \in GoodWrites : log[i].r = op.rail /\ log[i].a = 0

-----------------------------------------------------------------------------
(* The value resolve works with, checked under SpecResolve.                *)

RECURSIVE SolvedFrom(_, _)
\* what the solvers of the edges es make of the value v, one after the
\* other, with the rails as they were when resolve was called
SolvedFrom(v, es) ==
    IF es = <<>> THEN v
    ELSE LET from == pre.rails[Head(es).from]
             floor == Max(from.new_millivolts, from.millivolts)
         IN SolvedFrom(IF Head(es).kind = "AtLeast" THEN Max(v, floor) ELSE floor,
                       Tail(es))

ResolveRuns ==
    /\ op.name = "resolve"
    /\ ~ResolvedRail.disabled /\ ~ResolvedRail.suspended
    /\ ResolvedRail.reg /\ ~ResolvedRail.resolving_to

\* resolve starts its loop from v: v is what the solvers of the first
\* iteration work on and, when their result is not the rail's voltage, what
\* the first ramp is called with
StartsFrom(v) ==
    /\ Len(log) >= 2
    /\ log[1].k = "resolve" /\ log[1].r = op.rail /\ log[1].a = v
    /\ log[2].k = "iter" /\ log[2].r = op.rail
    /\ log[2].a = SolvedFrom(v, RelsFrom(op.rail))
    /\ IF log[2].a = ResolvedRail.millivolts
       THEN Len(log) = 3 /\ log[3].k = "resolved"
       ELSE Len(log) >= 3 /\ log[3].k = "ramp" /\ log[3].r = op.rail
            /\ log[3].a = log[2].a

C26_Case == ResolveRuns /\ ResolvedRail.override_millivolts # 0

(* C26 as stated: whenever a rail has an override voltage set, resolve     *)
(* hands the override, in place of the clock-derived demand, to            *)
(* relationship solving and ramping, whether the clock demand is zero or   *)
(* not.                                                                    *)

C26_Original == C26_Case => StartsFrom(ResolvedRail.override_millivolts)

(* C26 amended: whenever a rail has an override voltage set and at least   *)
(* one of its clocks demands a voltage, resolve hands the override, in     *)
(* place of the clock-derived demand, to relationship solving and ramping; *)
(* with no clock demand the override is not looked at.                     *)

C26_OverrideReplacesDemand ==
    C26_Case =>
        IF CurDemand(op.rail) # 0
        THEN StartsFrom(ResolvedRail.override_millivolts)
        ELSE \A i \in LogIdx :
                 (log[i].k = "resolve" /\ log[i].r = op.rail) => log[i].a = 0

\* the clocks ask for 1000 mV, the override is lower, and the rail comes down
\* to the override
C26_Witness ==
    /\ C26_Case /\ op.ret = 0
    /\ CurDemand(op.rail) > ResolvedRail.override_millivolts
    /\ ResolvedRail.millivolts > ResolvedRail.override_millivolts
    /\ RelsFrom(op.rail) = <<>>
    /\ rails[op.rail].millivolts = ResolvedRail.override_millivolts

-----------------------------------------------------------------------------
(* The loop of resolve, checked under SpecResolve.                         *)

RECURSIVE SolvedWith(_, _, _, _)
\* what the solvers of the edges es make of the value v, one after the
\* other, when the rails' current and pending voltages are mv and nmv
SolvedWith(v, es, mv, nmv) ==
    IF es = <<>> THEN v
    ELSE LET floor == Max(nmv[Head(es).from], mv[Head(es).from])
         IN SolvedWith(IF Head(es).kind = "AtLeast" THEN Max(v, floor) ELSE floor,
                       Tail(es), mv, nmv)

\* the iterations of the loop and the ramps it calls
Iters == {i \in LogIdx : log[i].k = "iter" /\ log[i].r = op.rail}
OwnRamps == {i \in LogIdx : log[i].k = "ramp" /\ log[i].r = op.rail}
LoopEntered == ResolveRuns /\ log # <<>> /\ log[1].k = "resolve"

\* every iteration solves the incoming edges in order, starting from the
\* clamped demand
SolvesInOrder ==
    \A i \in Iters :
        log[i].a = SolvedWith(log[1].a, RelsFrom(op.rail), log[i].mv, log[i].nmv)

(* C27 as stated, with every write succeeding: each iteration starts from  *)
(* the clamped demand and applies the incoming edges' solvers in           *)
(* registration order; ramp is called once at most, and only after an      *)
(* iteration has found the working value unchanged.                        *)

C27_Original ==
    (LoopEntered /\ AllWritesOk) =>
        /\ SolvesInOrder
        /\ Cardinality(OwnRamps) <= 1
        /\ \A j \in OwnRamps :
               \E i1, i2 \in Iters : i1 < i2 /\ i2 < j /\ log[i1].a = log[i2].a

(* C27 amended: each iteration of resolve starts from the clamped demand   *)
(* and applies every incoming edge's solver in registration order, each    *)
(* solver seeing the working value left by the previous one; when the      *)
(* working value equals the rail's current voltage resolve stops,          *)
(* otherwise it calls ramp with that working value at once and iterates    *)
(* again after the ramp, ceil(|demand - current| / step) + 1 iterations at *)
(* most.                                                                   *)

C27_SolveThenRamp ==
    LoopEntered =>
        /\ SolvesInOrder
        /\ \A i \in Iters :
               /\ log[i].b <= log[1].b
               /\ i < Len(log)
               /\ IF log[i].a = log[i].mv[op.rail]
                  THEN i + 1 = Len(log) /\ log[i + 1].k = "resolved"
                  ELSE (i + 1) \in OwnRamps /\ log[i + 1].a = log[i].a
        /\ \A j \in OwnRamps : (j - 1) \in Iters
        /\ log[Len(log)].k = "resolved"
        /\ Cardinality(Iters) <= log[1].b + 1

\* two incoming edges whose order matters, a ramp to what they give, and a
\* second iteration that finds the rail there
C27_Witness ==
    /\ LoopEntered /\ AllWritesOk /\ op.ret = 0
    /\ Len(RelsFrom(op.rail)) = 2
    /\ RelsFrom(op.rail)[1].kind = "AtLeast"
    /\ pre.rails["cpu"].millivolts > pre.rails["gpu"].millivolts
    /\ log[1].a < pre.rails["gpu"].millivolts
    /\ Cardinality(Iters) = 2 /\ Cardinality(OwnRamps) = 1
    /\ rails[op.rail].millivolts = pre.rails["gpu"].millivolts
    /\ ResolvedRail.millivolts # pre.rails["gpu"].millivolts

-----------------------------------------------------------------------------
(* The thermal tables after validation, checked under SpecTherm.           *)

\* the entries of a table that is in use
InUse(limits, size) == [i \in 1 .. size |-> limits[i]]

\* the limits fall, or stay, as the temperature rises
Descending(es) ==
    \A i \in 1 .. (Len(es) - 1) :
        es[i].temperature < es[i + 1].temperature /\ es[i].mv >= es[i + 1].mv

FloorsInUse(rail) == InUse(rail.therm_floors, rail.therm_floors_size)
CapsInUse(rail) == InUse(rail.therm_caps, rail.therm_caps_size)

(* C21: after the validation of the thermal tables at init, a floor or cap *)
(* table that is left enabled has its voltages descending as the           *)
(* temperature rises, the lowest floor is at or above the rail's minimum   *)
(* and the highest cap at or below the rail's nominal voltage; a table     *)
(* that is not so is disabled.                                             *)

C21_ValidatedTables ==
    op.name = "init_therm" =>
        /\ rails["core"].therm_floors # <<>> =>
               /\ rails["core"].therm_floors_size >= 1
               /\ Descending(FloorsInUse(rails["core"]))
               /\ FloorsInUse(rails["core"])[rails["core"].therm_floors_size].mv
                      >= rails["core"].min_millivolts
        /\ rails["core"].therm_caps # <<>> =>
               /\ rails["core"].therm_caps_size >= 1
               /\ Descending(CapsInUse(rails["core"]))
               /\ CapsInUse(rails["core"])[1].mv <= rails["core"].nominal_millivolts

-----------------------------------------------------------------------------
(* The end of a ramp, checked under SpecRamp.                              *)

\* the ramp went into its loop: the rail has a regulator, is enabled and is
\* not in continuous-control mode
RampEntered == op.name = "ramp" /\ Happened("ramp", op.rail)
\* no resolve of a dependent rail returned an error
NoPropagationFailure == \A i \in LogIdx : log[i].k = "resolved" => log[i].b = 0

(* C31: a ramp that is aborted neither by a failing regulator write nor by *)
(* a failing propagation ends with the current voltage at the requested    *)
(* target and does not report an incomplete ramp, also when a single step  *)
(* is forced by the jump-to-zero policy or because the rail is under       *)
(* external power sequencing and off, whatever the distance is.            *)

C31_RampReachesTarget ==
    (RampEntered /\ AllWritesOk /\ NoPropagationFailure) =>
        (op.ret = 0 /\ rails[op.rail].millivolts = op.arg)

(* C32: on every exit from a ramp, with success, after a failing regulator *)
(* write or after a failing resolve of a dependent rail, the rail's        *)
(* pending voltage equals its current voltage: a step that was not written *)
(* is taken back.                                                          *)

C32_PendingEqualsCurrentOnExit ==
    op.name = "ramp" =>
        rails[op.rail].new_millivolts = rails[op.rail].millivolts

-----------------------------------------------------------------------------
(* C33: the suspend level of a rail and the steps of tegra_dvfs_suspend_one *)

\* the events of the suspend loop itself, before any rollback
SuspendIdx == {i \in LogIdx : RollbackAt = 0 \/ i < RollbackAt}
\* the last marking before event i, 0 if none
PrevMark(i) ==
    LET M == {j \in EventIdx("mark") : j < i}
    IN IF M = {} THEN 0 ELSE CHOOSE j \in M : \A k \in M : k <= j
\* the rail that the suspend step of event i is working on, "" if none yet
StepRail(i) ==
    LET first == log[PrevMark(i) + 1]
    IN IF first.k \in {"ramp", "mark"} THEN first.r ELSE ""
\* the voltage of that rail when the step began
StepVoltage(i) == log[PrevMark(i) + 1].mv[StepRail(i)]
SuspendLevel(r) == tegra_dvfs_rail_get_suspend_level(pre.rails[r])
MarkedAsIs(i) == log[i].k = "mark" /\ PrevMark(i) = i - 1
MarkedAfterRamp(i) == log[i].k = "mark" /\ PrevMark(i) < i - 1

-----------------------------------------------------------------------------
(* C34: rate changes between the suspend and the resume                    *)

\* the table voltage of clock c at rate, 0 for rate 0
DemandAt(c, rate) ==
    IF rate = 0 THEN 0
    ELSE clks[c].millivolts[
             FreqIndex(dvfs_get_freqs(clks[c]), clks[c].num_freqs, rate, 0) + 1]
InTable(c, rate) == rate <= dvfs_get_freqs(clks[c])[clks[c].num_freqs]
\* what a resolve of r aims at with the clocks and the other rails as they are
ResolvedWithEdges(r) ==
    SolveAll([Ctx(rails, clks, NoFail) EXCEPT
                  !.rails[r].new_millivolts = ResolvedLevel(r)],
             r, RelsFrom(r)).rails[r].new_millivolts
SetWhileSuspended ==
    /\ op.name = "set_rate" /\ pre.rails[op.rail].suspended
    /\ InTable(op.clk, op.arg)
ResumeAfterSet == op.name = "resume" /\ pc.dirty /\ AllWritesOk

C34_WitnessSet ==
    /\ SetWhileSuspended /\ op.arg # pre.clks[op.clk].cur_rate
    /\ DemandAt(op.clk, op.arg) # 0
    /\ DemandAt(op.clk, op.arg) # rails[op.rail].millivolts

-----------------------------------------------------------------------------
(* C35: dvfs_rail_update called twice in a row                             *)

SecondResolve == op.name = "resolve_again"
FirstWritesOk ==
    \A i \in 1 .. Len(pc.first) : pc.first[i].k = "write" => pc.first[i].b
FirstForced ==
    \E i \in 1 .. Len(pc.first) : pc.first[i].k = "ramp" /\ pc.first[i].b.forced
SecondIsNoop ==
    /\ EventIdx("write") = {}
    /\ \A r \in RailIds : rails[r].millivolts = pre.rails[r].millivolts

C35_WitnessForced ==
    /\ SecondResolve /\ FirstWritesOk /\ pc.ret = 0 /\ FirstForced
    /\ rails["core"].millivolts # pc.before.rails["core"].millivolts

-----------------------------------------------------------------------------
(* C36: the order of the rails in tegra_dvfs_resume                        *)

\* the resume of the same system with the list in its own order
ListOrderResume == tegra_dvfs_resume(Ctx(pre.rails, pre.clks, NoFail))
OtherOrder == op.name = "resume" /\ pc.order # RailList

SameAsListOrder ==
    \A r \in RailIds : rails[r].millivolts = ListOrderResume.rails[r].millivolts

-----------------------------------------------------------------------------
(* C37: the rate-change notifier                                           *)

ClkNotified == op.name \in ClkEvents
\* the notifier called tegra_dvfs_set_rate
SetRateCalled == \E i \in LogIdx : log[i].k = "set_rate" /\ log[i].a = op.arg
\* the rate clock c runs at has a row in its table
HwInTable(c) == InTable(c, pc.hw[c])
DemandCoversRate(c) == clks[c].cur_millivolts >= DemandAt(c, pc.hw[c])
PhaseRule ==
    ClkNotified =>
        /\ SetRateCalled <=>
              /\ pc.on
              /\ \/ op.name = "PRE_RATE_CHANGE" /\ pc.old < pc.new
                 \/ op.name = "POST_RATE_CHANGE" /\ pc.old > pc.new
        /\ ~SetRateCalled => (rails = pre.rails /\ clks = pre.clks)

(* C37: for a clock that is enabled or prepared, the notifier records the  *)
(* demand of the new rate at PRE_RATE_CHANGE when the rate goes up and at  *)
(* POST_RATE_CHANGE when it goes down, and does nothing at                 *)
(* ABORT_RATE_CHANGE; so the recorded demand is never below the table      *)
(* voltage of the rate the clock runs at.                                  *)
C37_DemandCoversRunningRate ==
    /\ PhaseRule
    /\ \A c \in NotifiedClks :
          (~pc.missed[c] /\ HwInTable(c)) => DemandCoversRate(c)


-----------------------------------------------------------------------------
(* C38: tegra_dvfs_rail_disable at run time                                *)

DisableCase ==
    /\ op.name = "rail_disable"
    /\ ~pre.rails[op.rail].disabled /\ pre.rails[op.rail].reg
    /\ ~pre.rails[op.rail].dfll_mode
    /\ AllWritesOk
DisableLevel(r) == tegra_dvfs_rail_get_disable_level(pre.rails[r])

(* C38: tegra_dvfs_rail_disable on an enabled rail with a regulator, not   *)
(* in continuous-control mode, always leaves the disabled flag set,        *)
(* whether the voltage is below, at or above the disable level (it ramps   *)
(* up to the level when below and leaves the voltage otherwise); after it  *)
(* rate changes do not move the voltage until tegra_dvfs_rail_enable.      *)
C38_DisableAlwaysDisables ==
    /\ DisableCase =>
          /\ rails[op.rail].disabled
          /\ rails[op.rail].millivolts =
                 Max(DisableLevel(op.rail), pre.rails[op.rail].millivolts)
    /\ (op.name = "set_rate" /\ pre.rails[op.rail].disabled) =>
          /\ rails[op.rail].millivolts = pre.rails[op.rail].millivolts
          /\ \A i \in EventIdx("write") : log[i].r # op.rail


-----------------------------------------------------------------------------
(* C39: what a failed tegra_dvfs_set_rate leaves recorded                  *)

SetRateFailed == op.name = "set_rate" /\ op.ret # 0
RecordKept(c) ==
    /\ clks[c].cur_rate = pre.clks[c].cur_rate
    /\ clks[c].cur_millivolts = pre.clks[c].cur_millivolts

(* C39: whenever tegra_dvfs_set_rate returns an error, for whatever        *)
(* reason, a regulator write that fails during the ramp included, the      *)
(* clock's recorded rate and demand are what they were before the call.    *)
C39_FailedSetRateKeepsRecord ==
    SetRateFailed => RecordKept(op.clk)


-----------------------------------------------------------------------------
(* C40: the range of the thermal indices                                   *)

FloorIdxInRange(rail) ==
    rail.therm_floor_idx >= 0 /\ rail.therm_floor_idx <= rail.therm_floors_size
CapIdxInRange(rail) ==
    rail.therm_cap_idx >= 0 /\ rail.therm_cap_idx <= rail.therm_caps_size

(* C40: the thermal floor index and cap index of a rail always stay within *)
(* the bounds of its validated tables (floor index in 0..floors size, cap  *)
(* index in 0..caps size); no push stores an index outside them.           *)
C40_ThermalIndexInRange ==
    \A r \in RailIds : FloorIdxInRange(rails[r]) /\ CapIdxInRange(rails[r])

=============================================================================
